---- MODULE Spec2Model ----
(***************************************************************************)
(* Attendance analytics pipeline of the smart-attendance-system:           *)
(*   Model 1  trend analysis          (model1_trend_analysis.py)           *)
(*   Model 3  consistency analysis    (model3_consistency_analysis.py)     *)
(*   Model 4  attentiveness analysis  (model4_attentiveness_analysis.py)   *)
(*   Model 2  risk prediction         (model2_risk_prediction.py)          *)
(* Each stage is a pure function of its arguments; the actions below apply *)
(* the stages to inputs drawn from bounded families of attendance          *)
(* histories, chained the way test-model2-risk.py chains them.             *)
(*                                                                         *)
(* Numbers: Python floats are modelled by exact rationals [n, d] in lowest *)
(* terms (d > 0).  Square roots (standard deviations) are kept to three    *)
(* decimals, rounded down.  round(x, 2) is modelled by Round2.             *)
(***************************************************************************)
EXTENDS Integers, Sequences, FiniteSets, TLC

(***************************************************************************)
(* Bounds of the input families.                                           *)
(***************************************************************************)
MaxTrendLen == 9
MaxExtra == 2
MaxConsLen == 8
MaxSingles == 6
MaxQ == 8
MaxPipeLen == 6
MaxExchange == 10

(***************************************************************************)
(* Exact rational arithmetic.                                              *)
(***************************************************************************)
Abs(x) == IF x < 0 THEN -x ELSE x

RECURSIVE GCD(_, _)
GCD(a, b) == IF b = 0 THEN a ELSE GCD(b, a % b)

R(n, d) ==
    LET s == IF d < 0 THEN -1 ELSE 1
        g == GCD(Abs(n), Abs(d))
    IN  [n |-> (s * n) \div g, d |-> (s * d) \div g]

RInt(k) == [n |-> k, d |-> 1]
RAdd(a, b) == R(a.n * b.d + b.n * a.d, a.d * b.d)
RSub(a, b) == R(a.n * b.d - b.n * a.d, a.d * b.d)
RMul(a, b) == R(a.n * b.n, a.d * b.d)
RDiv(a, b) == R(a.n * b.d, a.d * b.n)
RLt(a, b) == a.n * b.d < b.n * a.d
RLe(a, b) == a.n * b.d <= b.n * a.d
RGt(a, b) == RLt(b, a)
RGe(a, b) == RLe(b, a)
RMin(a, b) == IF RLe(a, b) THEN a ELSE b
RMax(a, b) == IF RGe(a, b) THEN a ELSE b
RFloor(a) == a.n \div a.d
RCeil(a) == -((-a.n) \div a.d)
\* Python int(x): truncation toward zero
RTrunc(a) == IF a.n >= 0 THEN a.n \div a.d ELSE -((-a.n) \div a.d)
\* Python round(x, 2)
Round2(a) == R(RFloor(RAdd(RMul(a, RInt(100)), R(1, 2))), 100)
\* k / n * 100
Pct(k, n) == R(100 * k, n)

RECURSIVE ISqrtB(_, _, _)
ISqrtB(x, lo, hi) ==
    IF lo >= hi THEN lo
    ELSE LET mid == (lo + hi + 1) \div 2
         IN  IF mid * mid <= x THEN ISqrtB(x, mid, hi) ELSE ISqrtB(x, lo, mid - 1)

\* x ** 0.5 and np.sqrt for 0 <= x <= 4, to three decimals
RSqrt(a) == R(ISqrtB((a.n * 1000000) \div a.d, 0, 2000), 1000)

RECURSIVE RSum(_)
RSum(s) ==
    IF s = <<>> THEN RInt(0)
    ELSE IF Len(s) = 1 THEN s[1]
    ELSE LET half == Len(s) \div 2
         IN  RAdd(RSum(SubSeq(s, 1, half)), RSum(SubSeq(s, half + 1, Len(s))))

\* np.mean and np.std (population standard deviation) of a list of rationals
RMean(s) == RDiv(RSum(s), RInt(Len(s)))
RStd(s) ==
    LET m == RMean(s)
    IN  RSqrt(RMean([i \in DOMAIN s |-> RMul(RSub(s[i], m), RSub(s[i], m))]))

(***************************************************************************)
(* Attendance records.  NoneV is Python's None (a missing key reads the    *)
(* same through dict.get); EmptyStr is the empty string.  session_date is  *)
(* the day number of the ISO date, so that string order is date order.     *)
(***************************************************************************)
NoneV == "None"
EmptyStr == ""

Rec(st, reason, date, att, emo) ==
    [status |-> st, reason_type |-> reason, session_date |-> date,
     attentiveness |-> att, emotion |-> emo]

\* sum(1 for r in s if P(r)) is Len(SelectSeq(s, P))

IsPresent(r) == r.status = "present"
IsAbsent(r) == r.status = "absent"
\* Model 1 counts status in ['present', 'excused']
IsPresentOrExcused(r) == r.status \in {"present", "excused"}

Reverse(s) == [i \in 1..Len(s) |-> s[Len(s) + 1 - i]]
\* Python slices s[:k], s[k:], s[-k:]
Take(s, k) == SubSeq(s, 1, IF k > Len(s) THEN Len(s) ELSE k)
Drop(s, k) == SubSeq(s, k + 1, Len(s))
LastN(s, k) == IF Len(s) >= k THEN SubSeq(s, Len(s) - k + 1, Len(s)) ELSE s

\* sorted(records, key=session_date): stable insertion sort, oldest first
RECURSIVE InsertAsc(_, _)
InsertAsc(s, r) ==
    IF s = <<>> THEN <<r>>
    ELSE IF s[Len(s)].session_date <= r.session_date THEN Append(s, r)
    ELSE Append(InsertAsc(SubSeq(s, 1, Len(s) - 1), r), s[Len(s)])

RECURSIVE SortAsc(_)
SortAsc(s) ==
    IF s = <<>> THEN <<>>
    ELSE InsertAsc(SortAsc(SubSeq(s, 1, Len(s) - 1)), s[Len(s)])

\* sorted(records, key=session_date, reverse=True): newest first, and
\* records of equal date keep their input order
RECURSIVE InsertDesc(_, _)
InsertDesc(s, r) ==
    IF s = <<>> THEN <<r>>
    ELSE IF s[Len(s)].session_date >= r.session_date THEN Append(s, r)
    ELSE Append(InsertDesc(SubSeq(s, 1, Len(s) - 1), r), s[Len(s)])

RECURSIVE SortDesc(_)
SortDesc(s) ==
    IF s = <<>> THEN <<>>
    ELSE InsertDesc(SortDesc(SubSeq(s, 1, Len(s) - 1)), s[Len(s)])

(***************************************************************************)
(* Confidence by number of sessions (Model 1 inline, Model 3 helper).      *)
(***************************************************************************)
\* The confidence tiers with the thresholds counted into the lower tier
get_confidence_level_inclusive(total_sessions) ==
    IF total_sessions <= 5 THEN "none"
    ELSE IF total_sessions <= 10 THEN "low"
    ELSE IF total_sessions <= 15 THEN "medium"
    ELSE "high"

get_confidence_level(total_sessions) ==
    IF total_sessions < 5 THEN "none"
    ELSE IF total_sessions < 10 THEN "low"
    ELSE IF total_sessions < 15 THEN "medium"
    ELSE "high"

(***************************************************************************)
(* Model 1: trend analysis.                                                *)
(***************************************************************************)
WindowCap == 20

TrendConfidence(total_sessions) ==
    IF total_sessions < 5 THEN "none"
    ELSE IF total_sessions < 10 THEN "low"
    ELSE IF total_sessions < 15 THEN "medium"
    ELSE "high"

TrendDecisionInclusive(percentage_change) ==
    IF RGe(percentage_change, RInt(10)) THEN "improving"
    ELSE IF RLe(percentage_change, RInt(-10)) THEN "declining"
    ELSE "stable"

\* Apply decision threshold: +-10%
TrendDecision(percentage_change) ==
    IF RGt(percentage_change, RInt(10)) THEN "improving"
    ELSE IF RLt(percentage_change, RInt(-10)) THEN "declining"
    ELSE "stable"

\* consecutive absences counted from the most recent record backward
RECURSIVE LeadingAbsences(_)
LeadingAbsences(s) ==
    IF s = <<>> THEN 0
    ELSE IF Head(s).status = "absent" THEN 1 + LeadingAbsences(Tail(s))
    ELSE 0

calculate_trend_analysis(attendance_records) ==
    LET sorted_records == SortDesc(attendance_records)
        window_size == IF Len(sorted_records) < WindowCap
                       THEN Len(sorted_records) ELSE WindowCap
        window_records == Take(sorted_records, window_size)
        total_sessions == Len(window_records)
        present_count == Len(SelectSeq(window_records, IsPresentOrExcused))
        overall_percentage == Pct(present_count, total_sessions)
        chronological_records == Reverse(window_records)
        mid_point == total_sessions \div 2
        first_half == Take(chronological_records, mid_point)
        second_half == Drop(chronological_records, mid_point)
        first_half_percentage ==
            IF Len(first_half) > 0
            THEN Pct(Len(SelectSeq(first_half, IsPresentOrExcused)), Len(first_half))
            ELSE RInt(0)
        second_half_percentage ==
            IF Len(second_half) > 0
            THEN Pct(Len(SelectSeq(second_half, IsPresentOrExcused)), Len(second_half))
            ELSE RInt(0)
        percentage_change == RSub(second_half_percentage, first_half_percentage)
        recent_sessions == Take(sorted_records, IF total_sessions < 3 THEN total_sessions ELSE 3)
        recent_momentum ==
            IF Len(recent_sessions) > 0
            THEN Pct(Len(SelectSeq(recent_sessions, IsPresentOrExcused)), Len(recent_sessions))
            ELSE RInt(0)
        consecutive_absences == LeadingAbsences(sorted_records)
        mean == R(present_count, total_sessions)
        volatility ==
            IF total_sessions > 1
            THEN RSqrt(RMul(mean, RSub(RInt(1), mean)))
            ELSE RInt(0)
        time_span_days ==
            IF total_sessions >= 2
            THEN chronological_records[total_sessions].session_date
                 - chronological_records[1].session_date
            ELSE 0
    IN  IF total_sessions = 0 THEN
            [trend |-> "no_data", confidence |-> "none",
             metrics |-> [total_sessions |-> 0, overall_percentage |-> RInt(0),
                          minimum_required |-> 5]]
        ELSE IF total_sessions < 5 THEN
            [trend |-> "stable", confidence |-> "none",
             metrics |-> [total_sessions |-> total_sessions,
                          overall_percentage |-> Round2(overall_percentage),
                          minimum_required |-> 5]]
        ELSE
            [trend |-> TrendDecision(percentage_change),
             confidence |-> TrendConfidence(total_sessions),
             metrics |-> [total_sessions |-> total_sessions,
                          overall_percentage |-> Round2(overall_percentage),
                          window_percentage |-> Round2(overall_percentage),
                          first_half_percentage |-> Round2(first_half_percentage),
                          first_half_sessions |-> Len(first_half),
                          second_half_percentage |-> Round2(second_half_percentage),
                          second_half_sessions |-> Len(second_half),
                          percentage_change |-> Round2(percentage_change),
                          recent_momentum |-> Round2(recent_momentum),
                          recent_sessions_count |-> Len(recent_sessions),
                          consecutive_absence_streak |-> consecutive_absences,
                          volatility_score |-> volatility,
                          time_span_days |-> time_span_days,
                          confidence_level |-> TrendConfidence(total_sessions)]]

(***************************************************************************)
(* Model 3: consistency analysis.                                          *)
(***************************************************************************)
\* The streak loop without the check after the loop: a run that ends at the
\* last record is lost
RECURSIVE StreakLensInLoop(_, _, _)
StreakLensInLoop(s, i, current_streak) ==
    IF i > Len(s) THEN <<>>
    ELSE IF s[i].status = "absent" THEN StreakLensInLoop(s, i + 1, current_streak + 1)
    ELSE (IF current_streak > 1 THEN <<current_streak>> ELSE <<>>)
         \o StreakLensInLoop(s, i + 1, 0)

\* The streak loop keeping every run, a single absence included
RECURSIVE StreakLensAnyLength(_, _, _)
StreakLensAnyLength(s, i, current_streak) ==
    IF i > Len(s) THEN
        IF current_streak > 0 THEN <<current_streak>> ELSE <<>>
    ELSE IF s[i].status = "absent" THEN StreakLensAnyLength(s, i + 1, current_streak + 1)
    ELSE (IF current_streak > 0 THEN <<current_streak>> ELSE <<>>)
         \o StreakLensAnyLength(s, i + 1, 0)

\* Lengths of the streaks the loop collects: maximal runs of absent
\* records, kept only when longer than one record, the last run included.
RECURSIVE StreakLens(_, _, _)
StreakLens(s, i, current_streak) ==
    IF i > Len(s) THEN
        IF current_streak > 1 THEN <<current_streak>> ELSE <<>>
    ELSE IF s[i].status = "absent" THEN StreakLens(s, i + 1, current_streak + 1)
    ELSE (IF current_streak > 1 THEN <<current_streak>> ELSE <<>>)
         \o StreakLens(s, i + 1, 0)

RECURSIVE SeqSum(_)
SeqSum(s) == IF s = <<>> THEN 0 ELSE Head(s) + SeqSum(Tail(s))

RECURSIVE SeqMax(_)
SeqMax(s) ==
    IF Len(s) = 1 THEN Head(s)
    ELSE LET m == SeqMax(Tail(s)) IN IF Head(s) >= m THEN Head(s) ELSE m

IsExcusedAbsence3(r) == r.reason_type # NoneV /\ r.reason_type # EmptyStr

Min2(a, b) == IF a <= b THEN a ELSE b
Max2(a, b) == IF a >= b THEN a ELSE b

\* The score with the streak tiers read as strict bounds
calculate_discipline_score_strict(clustering, excused_pct, incidents, max_streak, single_abs) ==
    LET f1 == IF RGe(clustering, RInt(70)) THEN 30
              ELSE IF RGe(clustering, RInt(40)) THEN 15 ELSE 0
        f2 == IF RGe(excused_pct, RInt(80)) THEN 25
              ELSE IF RGe(excused_pct, RInt(50)) THEN 15
              ELSE IF RGe(excused_pct, RInt(30)) THEN 5 ELSE 0
        f3 == IF incidents = 0 THEN 20
              ELSE IF incidents <= 2 THEN 15
              ELSE IF incidents <= 4 THEN 5 ELSE 0
        f4 == IF max_streak < 3 THEN 15
              ELSE IF max_streak < 5 THEN 10
              ELSE IF max_streak < 7 THEN 5 ELSE 0
        f5 == IF single_abs = 0 THEN 10
              ELSE IF single_abs <= 2 THEN 5 ELSE 0
    IN  Min2(100, f1 + f2 + f3 + f4 + f5)

calculate_discipline_score(clustering, excused_pct, incidents, max_streak, single_abs) ==
    LET f1 == IF RGe(clustering, RInt(70)) THEN 30
              ELSE IF RGe(clustering, RInt(40)) THEN 15 ELSE 0
        f2 == IF RGe(excused_pct, RInt(80)) THEN 25
              ELSE IF RGe(excused_pct, RInt(50)) THEN 15
              ELSE IF RGe(excused_pct, RInt(30)) THEN 5 ELSE 0
        f3 == IF incidents = 0 THEN 20
              ELSE IF incidents <= 2 THEN 15
              ELSE IF incidents <= 4 THEN 5 ELSE 0
        f4 == IF max_streak <= 3 THEN 15
              ELSE IF max_streak <= 5 THEN 10
              ELSE IF max_streak <= 7 THEN 5 ELSE 0
        f5 == IF single_abs = 0 THEN 10
              ELSE IF single_abs <= 2 THEN 5 ELSE 0
    IN  Min2(100, f1 + f2 + f3 + f4 + f5)

classify_consistency_lax(clustering, excused_pct, incidents, max_streak, single_abs) ==
    IF RGe(clustering, RInt(70)) /\ RGe(excused_pct, RInt(60))
       /\ max_streak <= 7 /\ single_abs <= 2
    THEN "regular"
    ELSE IF RLt(clustering, RInt(30)) \/ RLt(excused_pct, RInt(30)) \/ single_abs > 5
    THEN "highly_irregular"
    ELSE "moderately_irregular"

\* The decision tree without the scattered-absences alternative
classify_consistency_unscattered(clustering, excused_pct, incidents, max_streak, single_abs) ==
    IF RGe(clustering, RInt(70)) /\ RGe(excused_pct, RInt(60)) /\ incidents <= 2
       /\ max_streak <= 7 /\ single_abs <= 2
    THEN "regular"
    ELSE IF RLt(excused_pct, RInt(30)) \/ single_abs > 5
            \/ (max_streak > 10 /\ RLt(excused_pct, RInt(50)))
    THEN "highly_irregular"
    ELSE "moderately_irregular"

classify_consistency(clustering, excused_pct, incidents, max_streak, single_abs) ==
    IF RGe(clustering, RInt(70)) /\ RGe(excused_pct, RInt(60)) /\ incidents <= 2
       /\ max_streak <= 7 /\ single_abs <= 2
    THEN "regular"
    ELSE IF RLt(clustering, RInt(30)) \/ RLt(excused_pct, RInt(30)) \/ single_abs > 5
            \/ (max_streak > 10 /\ RLt(excused_pct, RInt(50)))
    THEN "highly_irregular"
    ELSE "moderately_irregular"

\* The wording branch of generate_message, by name
generate_message(consistency, clustering, excused_pct, incidents, max_streak) ==
    IF consistency = "regular" THEN
        IF incidents = 0 THEN "regular_well_distributed"
        ELSE IF incidents = 1 THEN "regular_one_period"
        ELSE "regular_multiple_periods"
    ELSE IF consistency = "moderately_irregular" THEN
        IF max_streak > 7 THEN "moderate_extended_absence"
        ELSE IF RGe(excused_pct, RInt(50)) THEN "moderate_some_random"
        ELSE "moderate_mixed"
    ELSE
        IF RLt(clustering, RInt(30)) THEN "high_scattered"
        ELSE IF RLt(excused_pct, RInt(30)) THEN "high_unexcused"
        ELSE "high_extreme"

\* If no absences, perfect attendance: what the short-circuit would return
\* if it fell through into the scoring of a history without absences
perfect_attendance_fallthrough(total_sessions, overall_percentage) ==
    [consistency |-> classify_consistency(RInt(0), RInt(0), 0, 1, 0),
     confidence |-> get_confidence_level(total_sessions),
     metrics |-> [total_sessions |-> total_sessions,
                  overall_percentage |-> Round2(overall_percentage),
                  clustering_score |-> RInt(0),
                  consecutive_absence_incidents |-> 0,
                  max_absence_streak |-> 1,
                  single_absences |-> 0,
                  excused_percentage |-> RInt(0),
                  discipline_score |->
                      calculate_discipline_score(RInt(0), RInt(0), 0, 1, 0)],
     message |-> "high_scattered"]

\* If no absences, perfect attendance
perfect_attendance(total_sessions, overall_percentage) ==
    [consistency |-> "regular",
     confidence |-> get_confidence_level(total_sessions),
     metrics |-> [total_sessions |-> total_sessions,
                  overall_percentage |-> Round2(overall_percentage),
                  clustering_score |-> RInt(0),
                  consecutive_absence_incidents |-> 0,
                  max_absence_streak |-> 0,
                  single_absences |-> 0,
                  excused_percentage |-> RInt(0),
                  discipline_score |-> 100],
     message |-> "perfect_attendance"]

calculate_consistency_analysis(attendance_records) ==
    LET sorted_records == SortAsc(attendance_records)
        total_sessions == Len(sorted_records)
        present_count == Len(SelectSeq(sorted_records, IsPresent))
        absent_records == SelectSeq(sorted_records, IsAbsent)
        absent_count == Len(absent_records)
        overall_percentage == Pct(present_count, total_sessions)
        excused_count == Len(SelectSeq(absent_records, IsExcusedAbsence3))
        unexcused_count == absent_count - excused_count
        excused_percentage == Pct(excused_count, absent_count)
        consecutive_streaks == StreakLens(sorted_records, 1, 0)
        num_consecutive_incidents == Len(consecutive_streaks)
        max_absence_streak ==
            IF consecutive_streaks # <<>> THEN SeqMax(consecutive_streaks) ELSE 1
        absences_in_streaks == SeqSum(consecutive_streaks)
        single_absences == absent_count - absences_in_streaks
        clustering_score == Pct(absences_in_streaks, absent_count)
        consistency == classify_consistency(clustering_score, excused_percentage,
                           num_consecutive_incidents, max_absence_streak, single_absences)
    IN  IF total_sessions = 0 THEN
            [consistency |-> "no_data", confidence |-> "none",
             metrics |-> [total_sessions |-> 0, overall_percentage |-> RInt(0),
                          minimum_required |-> 5],
             message |-> "no_records"]
        ELSE IF total_sessions < 5 THEN
            [consistency |-> "regular", confidence |-> "none",
             metrics |-> [total_sessions |-> total_sessions,
                          overall_percentage |-> Round2(overall_percentage),
                          minimum_required |-> 5],
             message |-> "early_stage"]
        ELSE IF absent_count = 0 THEN
            perfect_attendance(total_sessions, overall_percentage)
        ELSE
            [consistency |-> consistency,
             confidence |-> get_confidence_level(total_sessions),
             metrics |-> [total_sessions |-> total_sessions,
                          overall_percentage |-> Round2(overall_percentage),
                          excused_percentage |-> Round2(excused_percentage),
                          excused_count |-> excused_count,
                          unexcused_count |-> unexcused_count,
                          consecutive_absence_incidents |-> num_consecutive_incidents,
                          max_absence_streak |-> max_absence_streak,
                          single_absences |-> single_absences,
                          clustering_score |-> Round2(clustering_score),
                          confidence_level |-> get_confidence_level(total_sessions),
                          discipline_score |->
                              calculate_discipline_score(clustering_score,
                                  excused_percentage, num_consecutive_incidents,
                                  max_absence_streak, single_absences)],
             message |-> generate_message(consistency, clustering_score,
                             excused_percentage, num_consecutive_incidents,
                             max_absence_streak)]

(***************************************************************************)
(* Model 4: attentiveness analysis.                                        *)
(***************************************************************************)
positive_emotions == {"happy", "surprise"}
neutral_emotions == {"neutral"}
negative_emotions == {"sad", "angry", "fear", "disgust"}

HasFaceData(r) ==
    r.status = "present" /\ r.attentiveness # NoneV /\ r.emotion # NoneV
IsHigh(r) == r.attentiveness = "High"
IsMedium(r) == r.attentiveness = "Medium"
IsLow(r) == r.attentiveness = "Low"
IsPositive(r) == r.emotion \in positive_emotions
IsNeutral(r) == r.emotion \in neutral_emotions
IsNegative(r) == r.emotion \in negative_emotions
HasLevel(r) == r.attentiveness \in {"High", "Medium", "Low"}

\* High=3, Medium=2, Low=1
LevelScore(att) == IF att = "High" THEN 3 ELSE IF att = "Medium" THEN 2 ELSE 1

\* np.std of the 3/2/1 scores.  The exact deviation of one High among four
\* Low (or one Low among four High) is 4/5, but in IEEE double arithmetic
\* np.std returns 0.8000000000000002 when the odd score is first or second
\* in the list, and 0.8 otherwise (every list of up to ten scores was
\* tried; no other list is decided differently against 0.8 than its exact
\* deviation).  StdJustAbove stands for that double.
StdJustAbove == R(800001, 1000000)
StdRoundsAbove(scores) ==
    [i \in DOMAIN scores |-> scores[i].n] \in
        {<<3, 1, 1, 1, 1>>, <<1, 3, 1, 1, 1>>, <<1, 3, 3, 3, 3>>, <<3, 1, 3, 3, 3>>}
np_std(scores) == IF StdRoundsAbove(scores) THEN StdJustAbove ELSE RStd(scores)

\* The share of qualifying records among the Present records only
data_quality_of_present(total_present, attendance_data) ==
    IF Len(SelectSeq(attendance_data, IsPresent)) > 0
    THEN R(total_present, Len(SelectSeq(attendance_data, IsPresent))) ELSE RInt(0)

\* Data quality score: total_present / total_sessions, all records counted
data_quality(total_present, attendance_data) ==
    LET total_sessions == Len(attendance_data)
    IN  IF total_sessions > 0 THEN R(total_present, total_sessions) ELSE RInt(0)

calculate_attentiveness_features(attendance_data) ==
    LET present_sessions == SelectSeq(attendance_data, HasFaceData)
        total_present == Len(present_sessions)
        levelled == SelectSeq(present_sessions, HasLevel)
        attentiveness_scores ==
            [i \in DOMAIN levelled |-> RInt(LevelScore(levelled[i].attentiveness))]
    IN  IF total_present = 0 THEN
            [total_present_sessions |-> 0,
             data_quality_score |-> RInt(0),
             high_attentiveness_ratio |-> RInt(0),
             medium_attentiveness_ratio |-> RInt(0),
             low_attentiveness_ratio |-> RInt(0),
             positive_emotion_ratio |-> RInt(0),
             neutral_emotion_ratio |-> RInt(0),
             negative_emotion_ratio |-> RInt(0),
             average_attentiveness_score |-> RInt(0),
             attentiveness_consistency |-> RInt(0)]
        ELSE
            [total_present_sessions |-> total_present,
             data_quality_score |-> data_quality(total_present, attendance_data),
             high_attentiveness_ratio |-> R(Len(SelectSeq(present_sessions, IsHigh)), total_present),
             medium_attentiveness_ratio |-> R(Len(SelectSeq(present_sessions, IsMedium)), total_present),
             low_attentiveness_ratio |-> R(Len(SelectSeq(present_sessions, IsLow)), total_present),
             positive_emotion_ratio |-> R(Len(SelectSeq(present_sessions, IsPositive)), total_present),
             neutral_emotion_ratio |-> R(Len(SelectSeq(present_sessions, IsNeutral)), total_present),
             negative_emotion_ratio |-> R(Len(SelectSeq(present_sessions, IsNegative)), total_present),
             average_attentiveness_score |->
                 IF attentiveness_scores # <<>> THEN RMean(attentiveness_scores) ELSE RInt(0),
             attentiveness_consistency |->
                 IF Len(attentiveness_scores) > 1 THEN np_std(attentiveness_scores)
                 ELSE RInt(0)]

calculate_confidence(features) ==
    LET s1 == IF features.total_present_sessions < 10 THEN 30
              ELSE IF features.total_present_sessions < 20 THEN 15 ELSE 0
        s2 == IF RLt(features.data_quality_score, R(8, 10)) THEN 20 ELSE 0
        s3 == IF RGt(features.attentiveness_consistency, R(8, 10)) THEN 15 ELSE 0
        confidence_score == 100 - s1 - s2 - s3
    IN  IF confidence_score >= 75 THEN "high"
        ELSE IF confidence_score >= 50 THEN "medium"
        ELSE IF confidence_score >= 30 THEN "low"
        ELSE "none"

\* face_score = (high_ratio * 0.5) + (positive_emotion_ratio * 0.5).  In
\* IEEE double arithmetic the sum of these ratio pairs, exactly 2/5, is
\* evaluated to 0.39999999999999997 (all such pairs up to 24 qualifying
\* sessions); every other comparison against 0.70, 0.50, 0.40 and 0.30
\* agrees with the exact value.
FaceScoreRoundsBelow(high_ratio, positive_emotion_ratio) ==
    <<high_ratio, positive_emotion_ratio>> \in
        {<<R(1, 10), R(7, 10)>>, <<R(7, 10), R(1, 10)>>,
         <<R(1, 15), R(11, 15)>>, <<R(11, 15), R(1, 15)>>,
         <<R(2, 15), R(2, 3)>>, <<R(2, 3), R(2, 15)>>}

FaceScore(high_ratio, positive_emotion_ratio) ==
    RAdd(RMul(high_ratio, R(1, 2)), RMul(positive_emotion_ratio, R(1, 2)))

\* face_score >= t as the float comparison decides it
FaceGe(features, t) ==
    LET high_ratio == features.high_attentiveness_ratio
        positive_emotion_ratio == features.positive_emotion_ratio
        face_score == FaceScore(high_ratio, positive_emotion_ratio)
    IN  IF face_score = t /\ FaceScoreRoundsBelow(high_ratio, positive_emotion_ratio)
        THEN FALSE
        ELSE RGe(face_score, t)

\* Python round(x, 3)
Round3(a) == R(RFloor(RAdd(RMul(a, RInt(1000)), R(1, 2))), 1000)

\* STEP 2, first branch, had it consulted the consistency like the others
high_engagement_checked(features, consistency_from_model3) ==
    [status |-> "analyzed",
     attentiveness |-> IF consistency_from_model3 = "highly_irregular"
                       THEN "moderately_attentive" ELSE "actively_attentive",
     confidence |-> calculate_confidence(features),
     face_score |-> Round3(FaceScore(features.high_attentiveness_ratio,
                                     features.positive_emotion_ratio)),
     consistency_checked |-> TRUE,
     reason |-> "high_engagement",
     sessions_analyzed |-> features.total_present_sessions,
     features |-> features]

\* STEP 2, first branch: HIGH ENGAGEMENT, final, consistency not checked
high_engagement(features, consistency_from_model3) ==
    [status |-> "analyzed",
     attentiveness |-> "actively_attentive",
     confidence |-> calculate_confidence(features),
     face_score |-> Round3(FaceScore(features.high_attentiveness_ratio,
                                     features.positive_emotion_ratio)),
     consistency_checked |-> FALSE,
     reason |-> "high_engagement",
     sessions_analyzed |-> features.total_present_sessions,
     features |-> features]

\* The safety gates with the data-quality gate tried before the session count
safety_gate_quality_first(features) ==
    IF features.total_present_sessions = 0 THEN "no_data"
    ELSE IF RLt(features.data_quality_score, R(6, 10)) THEN "low_quality_data"
    ELSE IF features.total_present_sessions < 5 THEN "early_stage"
    ELSE "pass"

\* SAFETY GATE 1 (insufficient data) and SAFETY GATE 2 (poor data quality)
safety_gate(features) ==
    IF features.total_present_sessions = 0 THEN "no_data"
    ELSE IF features.total_present_sessions < 5 THEN "early_stage"
    ELSE IF RLt(features.data_quality_score, R(6, 10)) THEN "low_quality_data"
    ELSE "pass"

classify_attentiveness(features, consistency_from_model3) ==
    LET face_score == Round3(FaceScore(features.high_attentiveness_ratio,
                                       features.positive_emotion_ratio))
        gate == safety_gate(features)
    IN  IF gate = "no_data" THEN
            [status |-> "no_data", attentiveness |-> NoneV, confidence |-> "none",
             sessions_analyzed |-> 0, features |-> features]
        ELSE IF gate = "early_stage" THEN
            [status |-> "early_stage", attentiveness |-> "moderately_attentive",
             confidence |-> "none",
             sessions_analyzed |-> features.total_present_sessions,
             features |-> features]
        ELSE IF gate = "low_quality_data" THEN
            [status |-> "low_quality_data", attentiveness |-> "moderately_attentive",
             confidence |-> "low",
             sessions_analyzed |-> features.total_present_sessions,
             features |-> features]
        ELSE IF FaceGe(features, R(70, 100)) THEN
            high_engagement(features, consistency_from_model3)
        ELSE IF FaceGe(features, R(40, 100)) THEN
            [status |-> "analyzed",
             attentiveness |->
                 IF consistency_from_model3 = "regular" /\ FaceGe(features, R(50, 100))
                 THEN "actively_attentive" ELSE "moderately_attentive",
             confidence |-> calculate_confidence(features),
             face_score |-> face_score,
             consistency_checked |-> TRUE,
             consistency_from_model3 |-> consistency_from_model3,
             reason |->
                 IF consistency_from_model3 = "regular" /\ FaceGe(features, R(50, 100))
                 THEN "moderate_high_regular"
                 ELSE IF consistency_from_model3 = "highly_irregular"
                 THEN "moderate_irregular" ELSE "moderate_acceptable",
             sessions_analyzed |-> features.total_present_sessions,
             features |-> features]
        ELSE
            [status |-> "analyzed",
             attentiveness |->
                 IF consistency_from_model3 = "regular" /\ FaceGe(features, R(30, 100))
                 THEN "moderately_attentive" ELSE "passively_attentive",
             confidence |-> calculate_confidence(features),
             face_score |-> face_score,
             consistency_checked |-> TRUE,
             consistency_from_model3 |-> consistency_from_model3,
             reason |->
                 IF consistency_from_model3 = "regular" /\ FaceGe(features, R(30, 100))
                 THEN "low_regular_introverted"
                 ELSE IF consistency_from_model3 = "highly_irregular"
                 THEN "low_irregular" ELSE "low_engagement",
             sessions_analyzed |-> features.total_present_sessions,
             features |-> features]

analyze_attentiveness(attendance_data, consistency_from_model3) ==
    classify_attentiveness(calculate_attentiveness_features(attendance_data),
                           consistency_from_model3)

(***************************************************************************)
(* Model 2: feature extraction.  The vector is a sequence of rationals;    *)
(* Python's features[k] is At(features, k).                                *)
(***************************************************************************)
\* dict.get(key, default)
Get(d, key, default) == IF key \in DOMAIN d THEN d[key] ELSE default
At(s, k) == s[k + 1]

PresentRate(s) == Pct(Len(SelectSeq(s, IsPresent)), Len(s))

\* record.get('attentiveness', 'Medium') scored High=3, Medium=2, Low=1, else 2
AttScore(r) ==
    IF r.attentiveness = "High" THEN 3
    ELSE IF r.attentiveness = "Low" THEN 1 ELSE 2
AttScores(s) == [i \in DOMAIN s |-> RInt(AttScore(s[i]))]

\* Model 2 counts an absence as excused when reason_type is not None
IsExcusedAbsence2(r) == r.status = "absent" /\ r.reason_type # NoneV

\* Category 1: current state (7)
current_state_features(student_data_) ==
    LET total_sessions == Len(student_data_)
        present_count == Len(SelectSeq(student_data_, IsPresent))
        absent_count == total_sessions - present_count
        current_attendance ==
            IF total_sessions > 0 THEN Pct(present_count, total_sessions) ELSE RInt(0)
        excused_absence_count == Len(SelectSeq(student_data_, IsExcusedAbsence2))
        attendance_variance ==
            IF total_sessions >= 5
            THEN RMul(RStd([i \in DOMAIN student_data_ |->
                               IF IsPresent(student_data_[i]) THEN RInt(1) ELSE RInt(0)]),
                      RInt(100))
            ELSE RInt(0)
    IN  <<current_attendance, RInt(total_sessions), RInt(present_count),
          RInt(absent_count), RInt(excused_absence_count),
          RInt(absent_count - excused_absence_count), attendance_variance>>

\* Category 2: trend (7)
trend_features(student_data_, model1_result_) ==
    LET total_sessions == Len(student_data_)
        current_attendance == current_state_features(student_data_)[1]
        trend == Get(model1_result_, "trend", "stable")
        trend_direction ==
            IF trend = "improving" THEN 1 ELSE IF trend = "declining" THEN -1 ELSE 0
        trend_strength == Get(Get(model1_result_, "features", <<>>), "trend_strength", R(1, 2))
        recent_5 == LastN(student_data_, 5)
        recent_10 == LastN(student_data_, 10)
        recent_5_rate == IF recent_5 # <<>> THEN PresentRate(recent_5) ELSE RInt(0)
        recent_10_rate == IF recent_10 # <<>> THEN PresentRate(recent_10) ELSE RInt(0)
        first_half == Take(student_data_, total_sessions \div 2)
        second_half == Drop(student_data_, total_sessions \div 2)
        trend_slope ==
            IF total_sessions >= 10
            THEN RDiv(RSub(PresentRate(second_half), PresentRate(first_half)),
                      R(total_sessions, 2))
            ELSE RInt(0)
        third == total_sessions \div 3
        first_rate == PresentRate(Take(student_data_, third))
        second_rate == PresentRate(SubSeq(student_data_, third + 1, 2 * third))
        third_rate == PresentRate(Drop(student_data_, 2 * third))
        trend_acceleration ==
            IF total_sessions >= 15
            THEN RSub(RDiv(RSub(third_rate, second_rate), RInt(third)),
                      RDiv(RSub(second_rate, first_rate), RInt(third)))
            ELSE RInt(0)
    IN  <<RInt(trend_direction), trend_strength, recent_5_rate, recent_10_rate,
          trend_slope, trend_acceleration, RSub(recent_5_rate, current_attendance)>>

\* Category 3: pattern (7)
pattern_features(student_data_, model3_result_) ==
    LET total_sessions == Len(student_data_)
        absent_count == total_sessions - Len(SelectSeq(student_data_, IsPresent))
        attendance_variance == current_state_features(student_data_)[7]
        consistency == Get(model3_result_, "consistency", "moderately_irregular")
        consistency_score ==
            IF consistency = "regular" THEN RInt(1)
            ELSE IF consistency = "highly_irregular" THEN RInt(0) ELSE R(1, 2)
        model3_features == Get(model3_result_, "features", <<>>)
        consecutive_absences_max == Get(model3_features, "max_consecutive_absences", RInt(0))
        consecutive_absences_avg == Get(model3_features, "avg_consecutive_absences", RInt(0))
        absence_clustering_score == Get(model3_features, "clustering_score", R(1, 2))
        attendance_regularity ==
            IF RLt(attendance_variance, RInt(100))
            THEN RSub(RInt(1), RDiv(attendance_variance, RInt(100))) ELSE RInt(0)
        absence_frequency ==
            IF total_sessions > 0 THEN R(absent_count, total_sessions) ELSE RInt(0)
        rolling_rates ==
            [i \in 1..(total_sessions - 4) |->
                R(Len(SelectSeq(SubSeq(student_data_, i, i + 4), IsPresent)), 5)]
        attendance_stability ==
            IF total_sessions >= 10
            THEN RSub(RInt(1), RMin(RInt(1), RMul(RStd(rolling_rates), RInt(2))))
            ELSE R(1, 2)
    IN  <<consistency_score, consecutive_absences_max, consecutive_absences_avg,
          absence_clustering_score, attendance_regularity, absence_frequency,
          attendance_stability>>

\* Category 4: engagement (5)
engagement_features(student_data_, model4_result_) ==
    LET total_sessions == Len(student_data_)
        attentiveness == Get(model4_result_, "attentiveness", "moderately_attentive")
        attentiveness_level ==
            IF attentiveness = "actively_attentive" THEN RInt(1)
            ELSE IF attentiveness = "passively_attentive" THEN RInt(0) ELSE R(1, 2)
        model4_features == Get(model4_result_, "features", <<>>)
        average_attentiveness_score ==
            Get(model4_features, "average_attentiveness_score", RInt(2))
        positive_emotion_ratio == Get(model4_features, "positive_emotion_ratio", R(3, 10))
        first_half_att == AttScores(Take(student_data_, total_sessions \div 2))
        second_half_att == AttScores(Drop(student_data_, total_sessions \div 2))
        engagement_trend ==
            IF total_sessions >= 10
            THEN RDiv(RSub(RMean(second_half_att), RMean(first_half_att)), RInt(3))
            ELSE RInt(0)
        att_scores == AttScores(student_data_)
        attentiveness_consistency ==
            IF total_sessions >= 5
            THEN RSub(RInt(1), RMin(RInt(1), RDiv(RStd(att_scores), RMean(att_scores))))
            ELSE R(1, 2)
    IN  <<attentiveness_level, average_attentiveness_score, positive_emotion_ratio,
          engagement_trend, attentiveness_consistency>>

\* Category 5: temporal (5).  now is the day datetime.now() falls on; a
\* session_date of 0 stands for a missing or unparsable date.
temporal_features(student_data_, total_sessions_planned, now) ==
    LET total_sessions == Len(student_data_)
        current_attendance == current_state_features(student_data_)[1]
        sessions_remaining == Max2(0, total_sessions_planned - total_sessions)
        semester_progress ==
            IF total_sessions_planned > 0
            THEN RMin(RInt(1), R(total_sessions, total_sessions_planned)) ELSE RInt(0)
        weeks_since_enrollment ==
            IF student_data_ # <<>>
            THEN IF student_data_[1].session_date # 0
                 THEN R(now - student_data_[1].session_date, 7)
                 ELSE R(total_sessions, 2)
            ELSE RInt(0)
        time_pressure ==
            IF RLt(current_attendance, RInt(75))
            THEN IF total_sessions_planned > 0
                 THEN RSub(RInt(1), R(sessions_remaining, total_sessions_planned))
                 ELSE RInt(1)
            ELSE RInt(0)
        semester_phase ==
            IF RLt(semester_progress, R(33, 100)) THEN RInt(0)
            ELSE IF RLt(semester_progress, R(67, 100)) THEN R(1, 2) ELSE RInt(1)
    IN  <<semester_progress, RInt(sessions_remaining), weeks_since_enrollment,
          time_pressure, semester_phase>>

\* sessions_remaining * 0.7 in double arithmetic: for these counts the product
\* falls just below the whole number it equals exactly (90 * 0.7 is
\* 62.99999999999999); for every other count up to 400 a whole number
\* compares with the product as with the exact one
SeventyPercentRoundsBelow(sessions_remaining) ==
    sessions_remaining \in {90, 170, 180, 330, 340, 350, 360}
seventy_percent_of(sessions_remaining) ==
    IF SeventyPercentRoundsBelow(sessions_remaining)
    THEN RSub(RMul(RInt(sessions_remaining), R(7, 10)), R(1, 1000000))
    ELSE RMul(RInt(sessions_remaining), R(7, 10))

\* (buffer / 100) * sessions_remaining in double arithmetic: for these
\* (present_count, total_sessions) the product falls just below the whole
\* number it equals exactly, so int() yields one less (11 of 12 present, 6
\* remaining: int(0.9999999999999994) = 0); histories of up to 22 records
BufferRoundsBelow(present_count, total_sessions) ==
    <<present_count, total_sessions>> \in
        {<<6, 7>>, <<8, 9>>, <<10, 11>>, <<11, 12>>, <<11, 13>>, <<11, 14>>,
         <<12, 14>>, <<14, 15>>, <<13, 17>>, <<14, 17>>, <<16, 17>>, <<16, 18>>,
         <<17, 18>>, <<15, 19>>, <<16, 19>>, <<18, 19>>, <<16, 21>>, <<17, 21>>,
         <<18, 21>>, <<20, 21>>, <<17, 22>>, <<19, 22>>, <<20, 22>>}
\* The allowance taken from the attendance itself, not from its excess over 75
max_absences_allowed_of_attendance(present_count, total_sessions, sessions_remaining) ==
    RTrunc(RMul(RDiv(Pct(present_count, total_sessions), RInt(100)),
                RInt(sessions_remaining)))

max_absences_allowed_of(present_count, total_sessions, sessions_remaining) ==
    LET buffer == RSub(Pct(present_count, total_sessions), RInt(75))
        exact == RMul(RDiv(buffer, RInt(100)), RInt(sessions_remaining))
    IN  IF exact.n > 0 /\ exact.n % exact.d = 0
           /\ BufferRoundsBelow(present_count, total_sessions)
        THEN RTrunc(exact) - 1
        ELSE RTrunc(exact)

\* The tiers with the medium band ending at half of the remaining sessions
recovery_difficulty_half(recovery_possible, sessions_needed_for_75, sessions_remaining) ==
    LET needed == RInt(sessions_needed_for_75)
        remaining == RInt(sessions_remaining)
    IN  IF recovery_possible = 0 THEN RInt(-1)
        ELSE IF sessions_needed_for_75 = 0 THEN RInt(1)
        ELSE IF RLe(needed, RMul(remaining, R(3, 10))) THEN RInt(1)
        ELSE IF RLe(needed, RMul(remaining, R(1, 2))) THEN R(1, 2)
        ELSE IF RLe(needed, remaining) THEN R(2, 10)
        ELSE RInt(-1)

\* recovery_difficulty: the if / elif chain over recovery_possible,
\* sessions_needed_for_75 and sessions_remaining
recovery_difficulty_tier(recovery_possible, sessions_needed_for_75, sessions_remaining) ==
    LET needed == RInt(sessions_needed_for_75)
        remaining == RInt(sessions_remaining)
    IN  IF recovery_possible = 0 THEN RInt(-1)
        ELSE IF sessions_needed_for_75 = 0 THEN RInt(1)
        ELSE IF RLe(needed, RMul(remaining, R(3, 10))) THEN RInt(1)
        ELSE IF RLe(needed, seventy_percent_of(sessions_remaining)) THEN R(1, 2)
        ELSE IF RLe(needed, remaining) THEN R(2, 10)
        ELSE RInt(-1)

\* Category 6: recovery and prediction (8).  The two places where double
\* arithmetic departs from the exact value for the session counts of the
\* input families are seventy_percent_of and max_absences_allowed_of.
recovery_features(student_data_, total_sessions_planned) ==
    LET total_sessions == Len(student_data_)
        present_count == Len(SelectSeq(student_data_, IsPresent))
        current_attendance == current_state_features(student_data_)[1]
        sessions_remaining == Max2(0, total_sessions_planned - total_sessions)
        remaining == RInt(sessions_remaining)
        best_possible_present == present_count + sessions_remaining
        best_possible_attendance ==
            IF total_sessions_planned > 0
            THEN Pct(best_possible_present, total_sessions_planned) ELSE RInt(0)
        recovery_possible == IF RGe(best_possible_attendance, RInt(75)) THEN 1 ELSE 0
        sessions_needed_for_75 ==
            Max2(0, RCeil(RSub(RMul(R(3, 4), RInt(total_sessions_planned)),
                               RInt(present_count))))
        needed == RInt(sessions_needed_for_75)
        recovery_difficulty ==
            recovery_difficulty_tier(recovery_possible, sessions_needed_for_75,
                                     sessions_remaining)
        recovery_margin ==
            IF recovery_possible = 1 /\ sessions_needed_for_75 = 0
            THEN RDiv(RSub(current_attendance, RInt(75)), RInt(100))
            ELSE IF recovery_possible = 1 /\ RLe(needed, RMul(remaining, R(3, 10)))
            THEN R(3, 10)
            ELSE IF recovery_possible = 1
                    /\ RLe(needed, seventy_percent_of(sessions_remaining))
            THEN R(1, 10)
            ELSE RInt(0)
        max_absences_allowed ==
            max_absences_allowed_of(present_count, total_sessions, sessions_remaining)
        failure_certainty ==
            IF recovery_possible = 0 THEN RInt(1)
            ELSE IF RGe(current_attendance, RInt(75)) THEN
                IF RGe(RInt(max_absences_allowed), RMul(remaining, R(1, 2))) THEN RInt(0)
                ELSE IF RGe(RInt(max_absences_allowed), RMul(remaining, R(3, 10)))
                THEN R(1, 10)
                ELSE R(3, 10)
            ELSE
                IF RGt(needed, remaining) THEN RInt(1)
                ELSE IF RGt(needed, RMul(remaining, R(9, 10))) THEN R(8, 10)
                ELSE IF RGt(needed, seventy_percent_of(sessions_remaining)) THEN R(6, 10)
                ELSE IF RGt(needed, RMul(remaining, R(1, 2))) THEN R(4, 10)
                ELSE R(2, 10)
    IN  <<RInt(total_sessions_planned), remaining, best_possible_attendance,
          RInt(recovery_possible), needed, recovery_difficulty, recovery_margin,
          failure_certainty>>

\* Category 7: class context (6).  class_data is None or a record with
\* students (a sequence of [id, records]) and sessions (date -> counts).
\* class_data=None: falsy, carries neither key
NoClassData == [none |-> TRUE]
HasStudents(class_data) == "students" \in DOMAIN class_data
HasSessions(class_data) == "sessions" \in DOMAIN class_data

StudentAttendance(student) ==
    IF Len(student.records) > 0 THEN PresentRate(student.records) ELSE RInt(0)

class_context_features(student_data_, class_data) ==
    LET total_sessions == Len(student_data_)
        current_attendance == current_state_features(student_data_)[1]
        class_attendances ==
            [k \in DOMAIN class_data.students |-> StudentAttendance(class_data.students[k])]
        class_average_attendance ==
            IF HasStudents(class_data) /\ class_attendances # <<>>
            THEN RMean(class_attendances) ELSE RInt(75)
        student_vs_class_difference == RSub(current_attendance, class_average_attendance)
        absent_dates ==
            LET absent == SelectSeq(student_data_, IsAbsent)
            IN  [k \in DOMAIN absent |-> absent[k].session_date]
        counted_dates ==
            SelectSeq(absent_dates,
                      LAMBDA d : d \in DOMAIN class_data.sessions
                                 /\ class_data.sessions[d].total_students > 0)
        class_att_on_absent_days ==
            [k \in DOMAIN counted_dates |->
                Pct(class_data.sessions[counted_dates[k]].present_count,
                    class_data.sessions[counted_dates[k]].total_students)]
        class_attendance_on_absent_days ==
            IF HasSessions(class_data) /\ absent_dates # <<>>
               /\ class_att_on_absent_days # <<>>
            THEN RMean(class_att_on_absent_days) ELSE RInt(75)
        rank == Len(SelectSeq(class_attendances, LAMBDA att : RLt(att, current_attendance)))
        peer_rank_percentile ==
            IF HasStudents(class_data)
            THEN (IF class_attendances # <<>>
                  THEN Pct(rank, Len(class_attendances)) ELSE RInt(50))
            ELSE RInt(50)
        below_class_average ==
            IF RLt(current_attendance, class_average_attendance) THEN 1 ELSE 0
        student_trend_value ==
            RSub(PresentRate(Drop(student_data_, total_sessions \div 2)),
                 PresentRate(Take(student_data_, total_sessions \div 2)))
        long_students ==
            SelectSeq(class_data.students, LAMBDA st : Len(st.records) >= 10)
        class_first_rates ==
            [k \in DOMAIN long_students |->
                PresentRate(Take(long_students[k].records,
                                 Len(long_students[k].records) \div 2))]
        class_second_rates ==
            [k \in DOMAIN long_students |->
                PresentRate(Drop(long_students[k].records,
                                 Len(long_students[k].records) \div 2))]
        \* computed by the code, and not read afterwards
        class_trend_value == RSub(RMean(class_second_rates), RMean(class_first_rates))
        relative_performance_trend ==
            IF HasStudents(class_data) /\ total_sessions >= 10
            THEN IF class_first_rates # <<>> /\ class_second_rates # <<>>
                 THEN IF RGt(student_trend_value, RInt(0))
                         /\ RGt(student_vs_class_difference, RInt(0)) THEN RInt(1)
                      ELSE IF RGt(student_trend_value, RInt(0)) THEN R(1, 2)
                      ELSE IF RLt(student_trend_value, RInt(0))
                              /\ RLt(student_vs_class_difference, RInt(0)) THEN RInt(-1)
                      ELSE IF RLt(student_trend_value, RInt(0)) THEN R(-1, 2)
                      ELSE RInt(0)
                 ELSE RInt(0)
            ELSE RInt(0)
    IN  <<class_average_attendance, student_vs_class_difference,
          class_attendance_on_absent_days, peer_rank_percentile,
          RInt(below_class_average), relative_performance_trend>>

\* the 34-feature layout the vector had before the NEW features were added
extract_features_v1(student_data_, model1_result_, model3_result_, model4_result_, class_data, total_sessions_planned, now) ==
    current_state_features(student_data_)
    \o SubSeq(trend_features(student_data_, model1_result_), 1, 5)
    \o SubSeq(pattern_features(student_data_, model3_result_), 1, 5)
    \o SubSeq(engagement_features(student_data_, model4_result_), 1, 3)
    \o SubSeq(temporal_features(student_data_, total_sessions_planned, now), 1, 3)
    \o SubSeq(recovery_features(student_data_, total_sessions_planned), 1, 6)
    \o SubSeq(class_context_features(student_data_, class_data), 1, 5)

extract_features(student_data_, model1_result_, model3_result_, model4_result_, class_data, total_sessions_planned, now) ==
    current_state_features(student_data_)
    \o trend_features(student_data_, model1_result_)
    \o pattern_features(student_data_, model3_result_)
    \o engagement_features(student_data_, model4_result_)
    \o temporal_features(student_data_, total_sessions_planned, now)
    \o recovery_features(student_data_, total_sessions_planned)
    \o class_context_features(student_data_, class_data)

(***************************************************************************)
(* Model 2: recommendations and analyze_risk.                              *)
(***************************************************************************)
\* The positions generate_recommendations and analyze_risk read
IdxCurrentAttendance == 0
IdxRecoveryPossible == 26
IdxSessionsNeeded == 27
IdxSessionsRemaining == 24
IdxBestPossible == 25

\* The recommendation texts, by branch and by the values they print
recommendations_from(current_attendance, recovery_possible, sessions_needed, sessions_remaining, best_possible) ==
    IF recovery_possible = RInt(0) THEN
        [branch |-> "recovery_impossible", best_possible |-> best_possible]
    ELSE IF RLt(current_attendance, RInt(75)) THEN
        LET required_percentage ==
                IF RGt(sessions_remaining, RInt(0))
                THEN RMul(RDiv(sessions_needed, sessions_remaining), RInt(100))
                ELSE RInt(100)
        IN  [branch |-> "below_threshold",
             sessions_needed |-> sessions_needed,
             sessions_remaining |-> sessions_remaining,
             tier |-> IF RGe(required_percentage, RInt(90)) THEN "very_difficult"
                      ELSE IF RGe(required_percentage, RInt(70)) THEN "challenging"
                      ELSE "achievable"]
    ELSE
        LET buffer == RSub(current_attendance, RInt(75))
        IN  [branch |-> "above_threshold",
             current_attendance |-> current_attendance,
             max_absences |-> RTrunc(RMul(RDiv(buffer, RInt(100)), sessions_remaining)),
             buffer |-> buffer]

generate_recommendations(features_) ==
    recommendations_from(At(features_, IdxCurrentAttendance),
                         At(features_, IdxRecoveryPossible),
                         At(features_, IdxSessionsNeeded),
                         At(features_, IdxSessionsRemaining),
                         At(features_, IdxBestPossible))

\* The classifier is an external artifact: any distribution it may return.
RiskLabels == {"low", "moderate", "high"}
ClassifierOutputs ==
    {[risk |-> l,
      probability |-> [k \in RiskLabels |-> IF k = l THEN R(8, 10) ELSE R(1, 10)],
      confidence |-> R(8, 10)] : l \in RiskLabels}

\* EDGE CASE 1 answered as an early-stage assessment
no_data_result_as_early_stage(total_sessions_planned) ==
    [status |-> "early_stage", risk |-> "high", probability |-> NoneV,
     confidence |-> "none", sessions_analyzed |-> 0,
     sessions_remaining |-> total_sessions_planned,
     recovery_possible |-> TRUE]

no_data_result(total_sessions_planned) ==
    [status |-> "no_data", risk |-> NoneV, probability |-> NoneV,
     confidence |-> NoneV, sessions_analyzed |-> 0,
     sessions_remaining |-> total_sessions_planned,
     recovery_possible |-> TRUE]

early_stage_result(student_data_, total_sessions_planned) ==
    LET present_count == Len(SelectSeq(student_data_, IsPresent))
        current_attendance == Pct(present_count, Len(student_data_))
        sessions_remaining == total_sessions_planned - Len(student_data_)
        best_possible == Pct(present_count + sessions_remaining, total_sessions_planned)
    IN  [status |-> "early_stage",
         risk |-> IF RGe(current_attendance, RInt(80)) THEN "low"
                  ELSE IF RGe(current_attendance, RInt(60)) THEN "moderate"
                  ELSE "high",
         probability |-> NoneV,
         confidence |-> "none",
         current_attendance |-> current_attendance,
         sessions_analyzed |-> Len(student_data_),
         sessions_remaining |-> sessions_remaining,
         best_possible_attendance |-> best_possible,
         recovery_possible |-> RGe(best_possible, RInt(75))]

analyzed_result(student_data_, features_, prediction) ==
    [status |-> "analyzed",
     risk |-> prediction.risk,
     probability |-> prediction.probability,
     confidence |-> prediction.confidence,
     current_attendance |-> At(features_, IdxCurrentAttendance),
     best_possible_attendance |-> At(features_, IdxBestPossible),
     recovery_possible |-> (At(features_, IdxRecoveryPossible) = RInt(1)),
     sessions_needed_to_reach_75 |-> RTrunc(At(features_, IdxSessionsNeeded)),
     sessions_remaining |-> RTrunc(At(features_, IdxSessionsRemaining)),
     recommendations |-> generate_recommendations(features_),
     sessions_analyzed |-> Len(student_data_),
     features_used |-> Len(features_)]

(***************************************************************************)
(* State: the arguments of the stages and the results they return.         *)
(***************************************************************************)
VARIABLES
    student_data,             \* the attendance records handed to the stages
    consistency_from_model3,  \* the consistency label handed to Model 4
    model1_result,            \* result of calculate_trend_analysis
    model3_result,            \* result of calculate_consistency_analysis
    model4_result,            \* result of analyze_attentiveness
    risk_result,              \* result of analyze_risk
    features,                 \* the feature vector analyze_risk extracted
    predict_calls,            \* number of classifier invocations
    risk_args,                \* class_data, total_sessions_planned and the
                              \* clock reading of the analyze_risk call
    artifact,                 \* the pickled model file at MODEL_PATH, or None
    startup,                  \* outcome of loading model2_risk_prediction
    pc,                       \* the stage to run next
    body,                     \* JSON body of the POST /recognize request
    student_map,              \* enrolled students whose embedding was usable
    img_idx,                  \* position of the image being processed
    faces,                    \* faces detected in that image
    face_idx,                 \* position of the face being processed
    recognized_students,      \* recognised students, in order of first match
    all_faces_detected,       \* running total of detected faces
    processed_images,         \* annotated images encoded so far
    log,                      \* logger.error / logger.warning entries
    response,                 \* the HTTP response of /recognize
    rpc,                      \* position of the /recognize handler
    X,                        \* training samples generated so far
    sample_count,             \* the training script's progress counter
    unit,                     \* position of the sample generation loop
    train_warnings            \* samples the training script gave up on

pipelineVars == <<student_data, consistency_from_model3, model1_result, model3_result,
                  model4_result, risk_result, features, predict_calls, risk_args,
                  artifact, startup, pc>>
recognizeVars == <<body, student_map, img_idx, faces, face_idx, recognized_students,
                   all_faces_detected, processed_images, log, response, rpc>>
trainingVars == <<X, sample_count, unit, train_warnings>>
vars == <<pipelineVars, recognizeVars, trainingVars>>

(***************************************************************************)
(* Input families.  A history in chronological order has session_date i    *)
(* for its i-th record.                                                    *)
(***************************************************************************)
NoFace(st, reason, date) == Rec(st, reason, date, NoneV, NoneV)

\* every present/absent pattern of a given length
StatusPatterns(n) == [1..n -> {"present", "absent"}]
PlainHistory(f) == [i \in DOMAIN f |-> NoFace(f[i], NoneV, i)]

\* e older records, then the two halves of a 20-session window; each half
\* starts with a (resp. b) absences and continues present
WindowHistory(e, older, a, b) ==
    [i \in 1..(e + WindowCap) |->
        NoFace(IF i <= e THEN older
               ELSE IF i - e <= 10 THEN (IF i - e <= a THEN "absent" ELSE "present")
               ELSE (IF i - e - 10 <= b THEN "absent" ELSE "present"),
               NoneV, i)]

TrendHistories ==
    {PlainHistory(f) : f \in UNION {StatusPatterns(n) : n \in 0..MaxTrendLen}}
    \cup {WindowHistory(e, older, a, b) :
             e \in 0..MaxExtra, older \in {"present", "absent"},
             a \in 0..10, b \in 0..10}

\* the stages accept the records in any order
Arrangements(h) == {h, Reverse(h)}

\* P present, A absent without reason, E absent with a reason
KindHistory(f) ==
    [i \in DOMAIN f |->
        IF f[i] = "P" THEN NoFace("present", NoneV, i)
        ELSE IF f[i] = "A" THEN NoFace("absent", NoneV, i)
        ELSE NoFace("absent", "Medical", i)]

\* the reason of the k-th absent record under an excuse mode
ModeReason(mode, k) ==
    IF mode = "all" THEN "Medical"
    ELSE IF mode = "none" THEN NoneV
    ELSE IF mode = "half" THEN (IF k % 2 = 0 THEN "Medical" ELSE NoneV)
    ELSE (IF k % 2 = 0 THEN "Medical" ELSE EmptyStr)

\* nruns runs of `streak' absences, each followed by one present record,
\* then `singles' isolated absences, each followed by one present record
RunsHistory(streak, nruns, singles, mode) ==
    LET runs == IF streak = 0 THEN 0 ELSE nruns
        n == runs * (streak + 1) + 2 * singles
    IN  [i \in 1..n |->
            IF i <= runs * (streak + 1)
            THEN (IF i % (streak + 1) = 0 THEN NoFace("present", NoneV, i)
                  ELSE NoFace("absent", ModeReason(mode, i), i))
            ELSE (IF (i - runs * (streak + 1)) % 2 = 0 THEN NoFace("present", NoneV, i)
                  ELSE NoFace("absent", ModeReason(mode, i), i))]

\* test-model3-consistency.py generate_test_data, 20 sessions
TestPattern(pattern_type) ==
    [k \in 1..20 |->
        LET i == k - 1
            is_present ==
                IF pattern_type = "regular" THEN ~(5 <= i /\ i <= 7)
                ELSE IF pattern_type = "highly_irregular" THEN i % 3 # 0
                ELSE IF pattern_type = "moderately_irregular" THEN i \notin {3, 4, 10, 15}
                ELSE IF pattern_type = "perfect" THEN TRUE
                ELSE i % 4 # 0
            reason ==
                IF pattern_type = "regular" THEN (IF is_present THEN NoneV ELSE "Medical")
                ELSE IF pattern_type = "moderately_irregular"
                THEN (IF i \in {3, 4} THEN "Medical" ELSE NoneV)
                ELSE NoneV
        IN  NoFace(IF is_present THEN "present" ELSE "absent", reason, k)]

StreakChoices == {0, 2, 8, 11}
RunChoices == 1..3
ExcuseModes == {"all", "none", "half", "empty"}
TestPatternTypes == {"regular", "highly_irregular", "moderately_irregular",
                     "perfect", "single_absences"}

ConsistencyHistories ==
    {KindHistory(f) : f \in UNION {[1..n -> {"P", "A", "E"}] : n \in 0..MaxConsLen}}
    \cup {RunsHistory(streak, nruns, singles, mode) :
             streak \in StreakChoices, nruns \in RunChoices,
             singles \in 0..MaxSingles, mode \in ExcuseModes}
    \cup {TestPattern(t) : t \in TestPatternTypes}

\* q present records with face data: the first nH High, the next nM Medium,
\* the rest Low; the first nPos with a positive emotion, the rest neutral
\* or negative; then pad records without face data (absent, or present with
\* no face recognised)
EmotionAt(i, nPos) ==
    IF i <= nPos THEN (IF nPos % 2 = 1 /\ i % 3 = 0 THEN "surprise" ELSE "happy")
    ELSE IF i % 5 = 0 THEN "neutral"
    ELSE IF i % 5 = 1 THEN "sad"
    ELSE IF i % 5 = 2 THEN "angry"
    ELSE IF i % 5 = 3 THEN "neutral"
    ELSE IF i % 2 = 0 THEN "fear" ELSE "disgust"

FaceHistory(q, nH, nM, nPos, pad) ==
    [i \in 1..(q + pad) |->
        IF i <= q
        THEN Rec("present", NoneV, i,
                 IF i <= nH THEN "High" ELSE IF i <= nH + nM THEN "Medium" ELSE "Low",
                 EmotionAt(i, nPos))
        ELSE IF i % 2 = 0 THEN NoFace("absent", NoneV, i)
        ELSE NoFace("present", NoneV, i)]

PadChoices == {0, 2, 5}
TenSessions == 10

FaceCounts ==
    {c \in (0..MaxQ) \X (0..MaxQ) \X (0..MaxQ) \X (0..MaxQ) :
        c[2] + c[3] <= c[1] /\ c[4] <= c[1]}

AttentivenessHistories ==
    {FaceHistory(c[1], c[2], c[3], c[4], pad) : c \in FaceCounts, pad \in PadChoices}
    \cup {FaceHistory(TenSessions, nH, 0, nPos, 0) :
             nH \in 0..TenSessions, nPos \in 0..TenSessions}

\* Pipeline histories: every present/absent pattern under three profiles
\* of reasons and face data
Profiles == {"plain", "engaged", "mixed"}
ProfileRecord(profile, st, i) ==
    IF profile = "plain" THEN NoFace(st, NoneV, i)
    ELSE IF profile = "engaged" THEN
        (IF st = "present" THEN Rec(st, NoneV, i, "High", "happy")
         ELSE NoFace(st, "Medical", i))
    ELSE
        (IF st = "present"
         THEN (IF i % 3 = 0 THEN NoFace(st, NoneV, i)
               ELSE IF i % 3 = 1 THEN Rec(st, NoneV, i, "High", "happy")
               ELSE Rec(st, NoneV, i, "Low", "sad"))
         ELSE NoFace(st, IF i % 2 = 0 THEN EmptyStr ELSE NoneV, i))
ProfileHistory(f, profile) == [i \in DOMAIN f |-> ProfileRecord(profile, f[i], i)]

\* test-model2-risk.py generate_test_data: one session every third day
Scenario(scenario, num_sessions) ==
    [k \in 1..num_sessions |->
        LET i == k - 1
            even == i % 2 = 0
            is_present ==
                IF scenario = "low_risk" THEN i % 10 # 0
                ELSE IF scenario = "moderate_risk" THEN i % 4 # 0
                ELSE IF scenario = "high_risk" THEN i % 3 = 0
                ELSE 10 * i > 4 * num_sessions \/ i % 5 = 0
            attentiveness ==
                IF scenario = "low_risk" THEN (IF even THEN "High" ELSE "Medium")
                ELSE IF scenario = "moderate_risk" THEN (IF even THEN "Medium" ELSE "Low")
                ELSE IF scenario = "high_risk" THEN (IF even THEN "Low" ELSE "Medium")
                ELSE (IF 2 * i > num_sessions THEN "High" ELSE "Medium")
            emotion ==
                IF scenario = "low_risk" THEN (IF even THEN "happy" ELSE "neutral")
                ELSE IF scenario = "moderate_risk" THEN (IF even THEN "neutral" ELSE "sad")
                ELSE IF scenario = "high_risk" THEN (IF even THEN "sad" ELSE "neutral")
                ELSE (IF 2 * i > num_sessions THEN "happy" ELSE "neutral")
            reason ==
                IF scenario = "low_risk" THEN "Medical"
                ELSE IF scenario = "recovering" /\ 10 * i < 4 * num_sessions THEN "Medical"
                ELSE NoneV
        IN  IF is_present THEN Rec("present", NoneV, 1 + 3 * i, attentiveness, emotion)
            ELSE NoFace("absent", reason, 1 + 3 * i)]

Scenarios == {"low_risk", "moderate_risk", "high_risk", "recovering"}
ScenarioLens == {5, 10, 15, 25}

PipelineHistories ==
    {ProfileHistory(f, profile) :
        f \in UNION {StatusPatterns(n) : n \in 0..MaxPipeLen}, profile \in Profiles}
    \cup {Scenario(sc, n) : sc \in Scenarios, n \in ScenarioLens}

\* a class of three students with twelve sessions each, present first
ClassStudent(id, present_count) ==
    [id |-> id,
     records |-> [j \in 1..12 |->
                     [status |-> IF j <= present_count THEN "present" ELSE "absent",
                      session_date |-> 1 + 3 * (j - 1)]]]
ClassA ==
    [students |-> <<ClassStudent(1, 11), ClassStudent(2, 9), ClassStudent(3, 6)>>,
     sessions |-> [d \in {1 + 3 * j : j \in 0..11} |->
                      [total_students |-> 3, present_count |-> 2, absent_count |-> 1]]]

ClassChoices == {NoClassData, ClassA}
PlannedChoices == {10, 20, 50, 80}
NowChoices == {100, 107}
\* total_sessions_planned of the training script's call
TrainingPlanned == 50

ConsistencyInputs == {NoneV, "regular", "moderately_irregular", "highly_irregular"}

(***************************************************************************)
(* The stages as actions.  test-model2-risk.py runs them in this order on  *)
(* one student's records: Model 1, Model 3, Model 4 (with Model 3's        *)
(* label), then analyze_risk.                                              *)
(***************************************************************************)
\* The 45 column names of the training script, in the extractor's order
FEATURE_NAMES ==
    <<"current_attendance_percentage", "total_sessions_so_far", "present_count",
      "absent_count", "excused_absence_count", "unexcused_absence_count",
      "attendance_variance",
      "trend_direction", "trend_strength", "recent_5_attendance_rate",
      "recent_10_attendance_rate", "trend_slope", "trend_acceleration",
      "recent_vs_overall_diff",
      "consistency_score", "consecutive_absences_max", "consecutive_absences_avg",
      "absence_clustering_score", "attendance_regularity", "absence_frequency",
      "attendance_stability",
      "attentiveness_level", "average_attentiveness_score", "positive_emotion_ratio",
      "engagement_trend", "attentiveness_consistency",
      "semester_progress", "sessions_remaining", "weeks_since_enrollment",
      "time_pressure", "semester_phase",
      "total_sessions_planned", "sessions_remaining_duplicate",
      "best_possible_attendance", "recovery_possible", "sessions_needed_to_reach_75",
      "recovery_difficulty", "recovery_margin", "failure_certainty",
      "class_average_attendance", "student_vs_class_difference",
      "class_attendance_on_absent_days", "peer_rank_percentile",
      "below_class_average", "relative_performance_trend">>

\* The pickled model_data: a classifier with its feature-name manifest.
\* train_risk_model_v3_correct.py saves FEATURE_NAMES, test-train-model.py
\* saves feature_0 .. feature_44; other manifests are a list cut short or
\* with two names exchanged.
Artifact(feature_names) == [model |-> "RandomForest", feature_names |-> feature_names]
TrainedArtifact == Artifact(FEATURE_NAMES)
GenericNames ==
    <<"feature_0", "feature_1", "feature_2", "feature_3", "feature_4", "feature_5",
      "feature_6", "feature_7", "feature_8", "feature_9", "feature_10", "feature_11",
      "feature_12", "feature_13", "feature_14", "feature_15", "feature_16", "feature_17",
      "feature_18", "feature_19", "feature_20", "feature_21", "feature_22", "feature_23",
      "feature_24", "feature_25", "feature_26", "feature_27", "feature_28", "feature_29",
      "feature_30", "feature_31", "feature_32", "feature_33", "feature_34", "feature_35",
      "feature_36", "feature_37", "feature_38", "feature_39", "feature_40", "feature_41",
      "feature_42", "feature_43", "feature_44">>
Exchanged(i, j) ==
    [k \in 1..45 |-> IF k = i THEN FEATURE_NAMES[j]
                     ELSE IF k = j THEN FEATURE_NAMES[i] ELSE FEATURE_NAMES[k]]
Manifests ==
    {FEATURE_NAMES, GenericNames}
    \cup {SubSeq(FEATURE_NAMES, 1, k) : k \in 0..44}
    \cup {Exchanged(i, j) : i \in 1..MaxExchange, j \in 2..(MaxExchange + 1)}
Artifacts == {[missing |-> TRUE]} \cup {Artifact(n) : n \in Manifests}

NotRun == [status |-> "not_run"]

RunTrend ==
    /\ pc = "model1"
    /\ model1_result' = calculate_trend_analysis(student_data)
    /\ pc' = "model3"
    /\ UNCHANGED <<student_data, consistency_from_model3, model3_result,
                   model4_result, risk_result, features, predict_calls, risk_args>>
    /\ UNCHANGED <<artifact, startup>>
    /\ UNCHANGED <<recognizeVars, trainingVars>>

RunConsistency ==
    /\ pc = "model3"
    /\ model3_result' = calculate_consistency_analysis(student_data)
    /\ consistency_from_model3' = model3_result'.consistency
    /\ pc' = "model4"
    /\ UNCHANGED <<student_data, model1_result, model4_result, risk_result,
                   features, predict_calls, risk_args>>
    /\ UNCHANGED <<artifact, startup>>
    /\ UNCHANGED <<recognizeVars, trainingVars>>

RunAttentiveness ==
    /\ pc = "model4"
    /\ model4_result' = analyze_attentiveness(student_data, consistency_from_model3)
    /\ pc' = "model2"
    /\ UNCHANGED <<student_data, consistency_from_model3, model1_result,
                   model3_result, risk_result, features, predict_calls, risk_args>>
    /\ UNCHANGED <<artifact, startup>>
    /\ UNCHANGED <<recognizeVars, trainingVars>>

\* analyze_risk with the early-stage edge case ending at 3 sessions
AnalyzeRiskFromFour ==
    /\ pc = "model2"
    /\ \E class_data \in ClassChoices, planned \in PlannedChoices, now \in NowChoices :
        /\ risk_args' = [class_data |-> class_data,
                         total_sessions_planned |-> planned, now |-> now]
        /\ IF Len(student_data) = 0 THEN
               /\ risk_result' = no_data_result(planned)
               /\ UNCHANGED <<features, predict_calls>>
           ELSE IF Len(student_data) < 4 THEN
               /\ risk_result' = early_stage_result(student_data, planned)
               /\ UNCHANGED <<features, predict_calls>>
           ELSE
               /\ features' = extract_features(student_data, model1_result,
                                  model3_result, model4_result, class_data, planned, now)
               /\ \E prediction \in ClassifierOutputs :
                      risk_result' = analyzed_result(student_data, features', prediction)
               /\ predict_calls' = predict_calls + 1
    /\ pc' = "done"
    /\ UNCHANGED <<student_data, consistency_from_model3, model1_result,
                   model3_result, model4_result>>
    /\ UNCHANGED <<artifact, startup>>
    /\ UNCHANGED <<recognizeVars, trainingVars>>

\* analyze_risk(student_data, model1_result, model3_result, model4_result,
\*              class_data, total_sessions_planned)
AnalyzeRisk ==
    /\ pc = "model2"
    /\ \E class_data \in ClassChoices, planned \in PlannedChoices, now \in NowChoices :
        /\ risk_args' = [class_data |-> class_data,
                         total_sessions_planned |-> planned, now |-> now]
        /\ IF Len(student_data) = 0 THEN
               /\ risk_result' = no_data_result(planned)
               /\ UNCHANGED <<features, predict_calls>>
           ELSE IF Len(student_data) < 5 THEN
               /\ risk_result' = early_stage_result(student_data, planned)
               /\ UNCHANGED <<features, predict_calls>>
           ELSE
               /\ features' = extract_features(student_data, model1_result,
                                  model3_result, model4_result, class_data, planned, now)
               /\ \E prediction \in ClassifierOutputs :
                      risk_result' = analyzed_result(student_data, features', prediction)
               /\ predict_calls' = predict_calls + 1
    /\ pc' = "done"
    /\ UNCHANGED <<student_data, consistency_from_model3, model1_result,
                   model3_result, model4_result>>
    /\ UNCHANGED <<artifact, startup>>
    /\ UNCHANGED <<recognizeVars, trainingVars>>

\* The training script's direct call:
\* extract_features(student_data, model1_result, model3_result, model4_result,
\*                  class_data, total_sessions_planned=50)
ExtractTrainingFeatures ==
    /\ pc = "model2"
    /\ \E now \in NowChoices :
        /\ risk_args' = [class_data |-> ClassA,
                         total_sessions_planned |-> TrainingPlanned, now |-> now]
        /\ features' = extract_features(student_data, model1_result, model3_result,
                           model4_result, ClassA, TrainingPlanned, now)
    /\ pc' = "sampled"
    /\ UNCHANGED <<student_data, consistency_from_model3, model1_result,
                   model3_result, model4_result, risk_result, predict_calls>>
    /\ UNCHANGED <<artifact, startup>>
    /\ UNCHANGED <<recognizeVars, trainingVars>>

\* Nothing is in flight at the recognition service or the training script
NoBody == [none |-> TRUE]
NoResponse == [status_code |-> 0]
ServiceIdle ==
    /\ body = NoBody
    /\ student_map = <<>>
    /\ img_idx = 0
    /\ faces = <<>>
    /\ face_idx = 0
    /\ recognized_students = <<>>
    /\ all_faces_detected = 0
    /\ processed_images = <<>>
    /\ log = <<>>
    /\ response = NoResponse
    /\ rpc = "idle"
    /\ X = <<>>
    /\ sample_count = 0
    /\ unit = 0
    /\ train_warnings = <<>>

InitResults ==
    /\ model1_result = NotRun
    /\ model3_result = NotRun
    /\ model4_result = NotRun
    /\ risk_result = NotRun
    /\ features = <<>>
    /\ predict_calls = 0
    /\ risk_args = NotRun
    /\ artifact = TrainedArtifact
    /\ startup = "loaded"

\* Model 1 alone, on trend histories given oldest-first or newest-first
InitTrend ==
    /\ student_data \in UNION {Arrangements(h) : h \in TrendHistories}
    /\ consistency_from_model3 = NoneV
    /\ InitResults
    /\ ServiceIdle
    /\ pc = "model1"

SpecTrend == InitTrend /\ [][RunTrend]_vars

\* Model 3 alone, on consistency histories
InitConsistency ==
    /\ student_data \in ConsistencyHistories
    /\ consistency_from_model3 = NoneV
    /\ InitResults
    /\ ServiceIdle
    /\ pc = "model3"

SpecConsistency == InitConsistency /\ [][RunConsistency]_vars

\* Model 4 alone, with any consistency argument
InitAttentiveness ==
    /\ student_data \in AttentivenessHistories
    /\ consistency_from_model3 \in ConsistencyInputs
    /\ InitResults
    /\ ServiceIdle
    /\ pc = "model4"

SpecAttentiveness == InitAttentiveness /\ [][RunAttentiveness]_vars

\* The recovery features alone (category 6 of extract_features), for every
\* count of present records among up to MaxRecLen records and every planned
\* total up to MaxPlanned
MaxRecLen == 20
MaxPlanned == 110
RecoveryHistory(present, n) ==
    [i \in 1..n |-> NoFace(IF i <= present THEN "present" ELSE "absent", NoneV, i)]
RecoveryHistories ==
    UNION {{RecoveryHistory(present, n) : present \in 0..n} : n \in 1..MaxRecLen}

ExtractRecoveryFeatures ==
    /\ pc = "recovery"
    /\ features' = recovery_features(student_data, risk_args.total_sessions_planned)
    /\ pc' = "recovered"
    /\ UNCHANGED <<student_data, consistency_from_model3, model1_result,
                   model3_result, model4_result, risk_result, predict_calls,
                   risk_args>>
    /\ UNCHANGED <<artifact, startup>>
    /\ UNCHANGED <<recognizeVars, trainingVars>>

InitRecovery ==
    /\ student_data \in RecoveryHistories
    /\ consistency_from_model3 = NoneV
    /\ model1_result = NotRun
    /\ model3_result = NotRun
    /\ model4_result = NotRun
    /\ risk_result = NotRun
    /\ features = <<>>
    /\ predict_calls = 0
    /\ risk_args \in {[class_data |-> NoClassData, total_sessions_planned |-> t,
                        now |-> 100] : t \in 0..MaxPlanned}
    /\ artifact = TrainedArtifact
    /\ startup = "loaded"
    /\ ServiceIdle
    /\ pc = "recovery"

SpecRecovery == InitRecovery /\ [][ExtractRecoveryFeatures]_vars

\* Loading model2_risk_prediction: the artifact is unpickled and its model
\* and feature names kept; a missing file prints an error and exits with 1.
LoadModule ==
    /\ pc = "import"
    /\ IF "missing" \in DOMAIN artifact
       THEN startup' = "exit_1" /\ pc' = "exited"
       ELSE startup' = "loaded" /\ pc' = "model2"
    /\ UNCHANGED <<student_data, consistency_from_model3, model1_result, model3_result,
                   model4_result, risk_result, features, predict_calls, risk_args,
                   artifact>>
    /\ UNCHANGED <<recognizeVars, trainingVars>>

\* main(): one request, carrying the records and the three stage results
RequestHistories == {<<>>, Scenario("low_risk", 5), Scenario("high_risk", 10)}

InitStartup ==
    /\ artifact \in Artifacts
    /\ startup = "not_loaded"
    /\ student_data \in RequestHistories
    /\ model1_result = calculate_trend_analysis(student_data)
    /\ model3_result = calculate_consistency_analysis(student_data)
    /\ consistency_from_model3 = model3_result.consistency
    /\ model4_result = analyze_attentiveness(student_data, consistency_from_model3)
    /\ risk_result = NotRun
    /\ features = <<>>
    /\ predict_calls = 0
    /\ risk_args = NotRun
    /\ ServiceIdle
    /\ pc = "import"

NextStartup ==
    \/ LoadModule
    \/ AnalyzeRisk

SpecStartup == InitStartup /\ [][NextStartup]_vars

\* The whole pipeline on one student's records
Init ==
    /\ student_data \in PipelineHistories
    /\ consistency_from_model3 = NoneV
    /\ InitResults
    /\ ServiceIdle
    /\ pc = "model1"

Next ==
    \/ RunTrend
    \/ RunConsistency
    \/ RunAttentiveness
    \/ AnalyzeRisk
    \/ ExtractTrainingFeatures

Spec == Init /\ [][Next]_vars

(***************************************************************************)
(* The face-recognition service, POST /recognize (main.py), and the        *)
(* sample generation loop of train_risk_model_v3_correct.py.  What the     *)
(* libraries do with a picture is part of the request: whether the base64  *)
(* string decodes, which faces the detector reports, how similar a face is *)
(* to each enrolled embedding, and its dominant emotion.  Whether a call   *)
(* into DeepFace or OpenCV raises is chosen at the call.                   *)
(***************************************************************************)
MaxImages == 2
MaxFaces == 2
MaxSamples == 10

\* cosine similarities are kept in hundredths
SIMILARITY_THRESHOLD == 40

Usns == {"S1", "S2"}
\* embedding: "ok" a usable vector, "empty" missing or [], "bad" one that
\* np.array(..., dtype=float32) rejects
Student(usn, embedding) == [usn |-> usn, name |-> usn, embedding |-> embedding]
EnrolledChoices ==
    {<<>>,
     <<Student("S1", "ok"), Student("S2", "ok")>>,
     <<Student("S1", "bad"), Student("S2", "ok")>>,
     <<Student("S1", "empty")>>}

Face(w, h, crop_size, s1, s2, emotion) == [w |-> w, h |-> h, crop_size |-> crop_size, similarity |-> [usn \in Usns |-> IF usn = "S1" THEN s1 ELSE s2], emotion |-> emotion]
FaceKinds ==
    {Face(10, 12, 120, 90, 10, "happy"),
     Face(64, 64, 4096, 80, 30, "happy"),
     Face(64, 64, 4096, 90, 30, "sad"),
     Face(64, 64, 4096, 30, 35, "neutral")}
ImageKinds ==
    {[decodable |-> FALSE, faces |-> <<>>]}
    \cup {[decodable |-> TRUE, faces |-> fs] :
             fs \in UNION {[1..n -> FaceKinds] : n \in 0..MaxFaces}}
Bodies ==
    {[malformed |-> TRUE]}
    \cup {[images |-> is, enrolled_students |-> st] :
             is \in UNION {[1..n -> ImageKinds] : n \in 0..MaxImages},
             st \in EnrolledChoices}

HttpError(code, detail) == [status_code |-> code, detail |-> detail]
LogEntry(level, what, i, j) == [level |-> level, what |-> what, image |-> i, face |-> j]

\* except HTTPException: raise
Raise400(detail) ==
    /\ response' = HttpError(400, detail)
    /\ rpc' = "sent"

\* except Exception as e: logger.error(...); raise HTTPException(500)
RecognitionFailed ==
    /\ log' = Append(log, LogEntry("error", "Recognition error", img_idx, 0))
    /\ response' = HttpError(500, "Recognition failed")
    /\ rpc' = "sent"

\* for img_idx, image_base64 in enumerate(images_base64): the next turn
NextImage ==
    IF img_idx < Len(body.images)
    THEN img_idx' = img_idx + 1 /\ rpc' = "decode"
    ELSE img_idx' = img_idx /\ rpc' = "respond"

\* for face_idx, face_data in enumerate(faces): the next turn
NextFace ==
    IF face_idx < Len(faces)
    THEN face_idx' = face_idx + 1 /\ rpc' = "face"
    ELSE face_idx' = face_idx /\ rpc' = "stamp"

\* Parsing the body, the two emptiness checks and the embedding table
ReceiveRequest ==
    /\ rpc = "parse"
    /\ IF "malformed" \in DOMAIN body THEN
           /\ RecognitionFailed
           /\ UNCHANGED <<student_map, img_idx>>
       ELSE IF body.images = <<>> THEN
           /\ Raise400("No images provided")
           /\ UNCHANGED <<student_map, img_idx, log>>
       ELSE IF body.enrolled_students = <<>> THEN
           /\ Raise400("No enrolled students provided")
           /\ UNCHANGED <<student_map, img_idx, log>>
       ELSE
           LET given == SelectSeq(body.enrolled_students, LAMBDA s : s.embedding # "empty")
               invalid == SelectSeq(given, LAMBDA s : s.embedding = "bad")
           IN  /\ student_map' = SelectSeq(given, LAMBDA s : s.embedding = "ok")
               /\ log' = log \o [k \in DOMAIN invalid |->
                                    LogEntry("warning", "Invalid embedding", 0, 0)]
               /\ IF student_map' = <<>>
                  THEN Raise400("No valid student embeddings found")
                       /\ UNCHANGED img_idx
                  ELSE img_idx' = 1 /\ rpc' = "decode" /\ UNCHANGED response
    /\ UNCHANGED <<body, faces, face_idx, recognized_students, all_faces_detected,
                   processed_images>>
    /\ UNCHANGED <<pipelineVars, trainingVars>>

\* base64.b64decode / Image.open / np.array, in their own try
DecodeImage ==
    /\ rpc = "decode"
    /\ IF body.images[img_idx].decodable THEN
           /\ rpc' = "detect"
           /\ UNCHANGED <<img_idx, log>>
       ELSE
           /\ log' = Append(log, LogEntry("error", "Error decoding image", img_idx, 0))
           /\ NextImage
    /\ UNCHANGED <<body, student_map, faces, face_idx, recognized_students,
                   all_faces_detected, processed_images, response>>
    /\ UNCHANGED <<pipelineVars, trainingVars>>

\* cv2.cvtColor and DeepFace.extract_faces, outside any inner try
DetectFaces ==
    /\ rpc = "detect"
    /\ \E extract_faces \in {"returns", "raises"} :
           IF extract_faces = "raises" THEN
               /\ RecognitionFailed
               /\ UNCHANGED <<faces, face_idx, all_faces_detected>>
           ELSE
               /\ faces' = body.images[img_idx].faces
               /\ all_faces_detected' = all_faces_detected + Len(faces')
               /\ face_idx' = 1
               /\ rpc' = IF faces' = <<>> THEN "stamp" ELSE "face"
               /\ UNCHANGED <<log, response>>
    /\ UNCHANGED <<body, student_map, img_idx, recognized_students, processed_images>>
    /\ UNCHANGED <<pipelineVars, trainingVars>>

\* np.argmax(similarities): the first index of the largest similarity
best_idx(face) ==
    CHOOSE i \in DOMAIN student_map :
        /\ \A j \in DOMAIN student_map :
               face.similarity[student_map[j].usn] <= face.similarity[student_map[i].usn]
        /\ \A j \in 1..(i - 1) :
               face.similarity[student_map[j].usn] < face.similarity[student_map[i].usn]

attentiveness_of(emotion) ==
    IF emotion \in {"happy", "surprise"} THEN "High"
    ELSE IF emotion = "neutral" THEN "Medium"
    ELSE "Low"

emotion_priority(emotion) ==
    IF emotion = "happy" THEN 5
    ELSE IF emotion = "surprise" THEN 4
    ELSE IF emotion = "neutral" THEN 3
    ELSE IF emotion = "sad" THEN 2
    ELSE IF emotion \in {"fear", "angry", "disgust"} THEN 1
    ELSE 0

\* recognized_students[usn] = {...} or the update of the entry already there
update_recognized(rs, matched_student, best_score, attentiveness, emotion) ==
    IF \A k \in DOMAIN rs : rs[k].usn # matched_student.usn THEN
        Append(rs, [usn |-> matched_student.usn, name |-> matched_student.name,
                    confidence |-> best_score, attentiveness |-> attentiveness,
                    emotion |-> emotion])
    ELSE
        LET k == CHOOSE k \in DOMAIN rs : rs[k].usn = matched_student.usn
            existing_priority == emotion_priority(rs[k].emotion)
            new_priority == emotion_priority(emotion)
        IN  IF new_priority > existing_priority THEN
                [rs EXCEPT ![k] = [@ EXCEPT !.emotion = emotion,
                                            !.attentiveness = attentiveness,
                                            !.confidence = Max2(best_score, @)]]
            ELSE IF new_priority = existing_priority /\ best_score > rs[k].confidence THEN
                [rs EXCEPT ![k].confidence = best_score]
            ELSE rs

\* One detected face: the size checks, then the try around DeepFace.represent,
\* the match, DeepFace.analyze (in a try of its own) and draw_bounding_box
ProcessFace ==
    /\ rpc = "face"
    /\ LET face == faces[face_idx] IN
       IF face.w < 20 \/ face.h < 20 \/ face.crop_size = 0 THEN
           UNCHANGED <<recognized_students, log>>
       ELSE
           \E represent \in {"returns", "raises"}, analyze \in {"returns", "raises"},
              draw \in {"returns", "raises"} :
               LET face_error == LogEntry("error", "Error processing face", img_idx, face_idx)
                   best == best_idx(face)
                   best_score == face.similarity[student_map[best].usn]
                   emotion == IF analyze = "returns" THEN face.emotion ELSE "neutral"
                   attentiveness ==
                       IF analyze = "returns" THEN attentiveness_of(emotion) ELSE "Medium"
                   emotion_log ==
                       IF analyze = "returns" THEN <<>>
                       ELSE <<LogEntry("warning", "Emotion detection failed",
                                       img_idx, face_idx)>>
                   draw_log == IF draw = "returns" THEN <<>> ELSE <<face_error>>
               IN  IF represent = "raises" THEN
                       /\ log' = Append(log, face_error)
                       /\ UNCHANGED recognized_students
                   ELSE IF best_score >= SIMILARITY_THRESHOLD THEN
                       /\ recognized_students' =
                              update_recognized(recognized_students, student_map[best],
                                                best_score, attentiveness, emotion)
                       /\ log' = log \o emotion_log \o draw_log
                   ELSE
                       /\ log' = log \o draw_log
                       /\ UNCHANGED recognized_students
    /\ NextFace
    /\ UNCHANGED <<body, student_map, img_idx, faces, all_faces_detected,
                   processed_images, response>>
    /\ UNCHANGED <<pipelineVars, trainingVars>>

\* The timestamp drawn with cv2 and cv2.imencode, outside any inner try
AnnotateImage ==
    /\ rpc = "stamp"
    /\ \E imencode \in {"returns", "raises"} :
           IF imencode = "raises" THEN
               /\ RecognitionFailed
               /\ UNCHANGED <<img_idx, processed_images>>
           ELSE
               /\ processed_images' = Append(processed_images, img_idx)
               /\ NextImage
               /\ UNCHANGED <<log, response>>
    /\ UNCHANGED <<body, student_map, faces, face_idx, recognized_students,
                   all_faces_detected>>
    /\ UNCHANGED <<pipelineVars, trainingVars>>

\* return {"success": True, ...}
Respond ==
    /\ rpc = "respond"
    /\ response' = [status_code |-> 200, success |-> TRUE,
                    recognized_students |-> recognized_students,
                    total_faces_detected |-> all_faces_detected,
                    total_students_recognized |-> Len(recognized_students),
                    processed_images |-> processed_images,
                    threshold_used |-> SIMILARITY_THRESHOLD]
    /\ rpc' = "sent"
    /\ UNCHANGED <<body, student_map, img_idx, faces, face_idx, recognized_students,
                   all_faces_detected, processed_images, log>>
    /\ UNCHANGED <<pipelineVars, trainingVars>>

\* student_distribution for MaxSamples samples, and the (student_type, i)
\* pairs the two nested loops run through
student_distribution ==
    <<<<"excellent", (MaxSamples * 30) \div 100>>, <<"good", (MaxSamples * 25) \div 100>>,
      <<"average", (MaxSamples * 20) \div 100>>, <<"at_risk", (MaxSamples * 15) \div 100>>,
      <<"failing", (MaxSamples * 10) \div 100>>>>
RECURSIVE UnitsFrom(_)
UnitsFrom(k) ==
    IF k > Len(student_distribution) THEN <<>>
    ELSE [i \in 1..student_distribution[k][2] |-> <<student_distribution[k][1], i - 1>>]
         \o UnitsFrom(k + 1)
Units == UnitsFrom(1)

\* One turn of the sample loop: generate_training_sample in a try
GenerateSample ==
    /\ unit \in DOMAIN Units
    /\ \E generate_training_sample \in {"returns", "raises"} :
           IF generate_training_sample = "returns" THEN
               /\ X' = Append(X, Units[unit])
               /\ sample_count' = sample_count + 1
               /\ UNCHANGED train_warnings
           ELSE
               /\ train_warnings' = Append(train_warnings, Units[unit][2] + 1)
               /\ UNCHANGED <<X, sample_count>>
    /\ unit' = unit + 1
    /\ UNCHANGED <<pipelineVars, recognizeVars>>

PipelineIdle ==
    /\ student_data = <<>>
    /\ consistency_from_model3 = NoneV
    /\ InitResults
    /\ pc = "idle"

\* Either one /recognize request arrives or the training script starts
InitBatches ==
    /\ PipelineIdle
    /\ student_map = <<>> /\ img_idx = 0 /\ faces = <<>> /\ face_idx = 0
    /\ recognized_students = <<>> /\ all_faces_detected = 0
    /\ processed_images = <<>> /\ log = <<>> /\ response = NoResponse
    /\ X = <<>> /\ sample_count = 0 /\ train_warnings = <<>>
    /\ \/ body \in Bodies /\ rpc = "parse" /\ unit = 0
       \/ body = NoBody /\ rpc = "idle" /\ unit = 1

NextBatches ==
    \/ ReceiveRequest
    \/ DecodeImage
    \/ DetectFaces
    \/ ProcessFace
    \/ AnnotateImage
    \/ Respond
    \/ GenerateSample

SpecBatches == InitBatches /\ [][NextBatches]_vars

(***************************************************************************)
(* Properties of Model 1 (SpecTrend).                                      *)
(***************************************************************************)
\* The window and its halves, read off the session dates: a record is in
\* the window when fewer than 20 records are newer, and in the older half
\* when its chronological position in the window is at most floor(N/2).
NewerCount(i) ==
    Cardinality({j \in DOMAIN student_data :
                    student_data[j].session_date > student_data[i].session_date})
InWindow(i) == NewerCount(i) < 20
WindowN == Cardinality({i \in DOMAIN student_data : InWindow(i)})
InOlderHalf(i) == InWindow(i) /\ WindowN - NewerCount(i) <= WindowN \div 2
InNewerHalf(i) == InWindow(i) /\ ~InOlderHalf(i)
OlderHalfPct ==
    Pct(Cardinality({i \in DOMAIN student_data :
                        InOlderHalf(i) /\ student_data[i].status = "present"}),
        WindowN \div 2)
NewerHalfPct ==
    Pct(Cardinality({i \in DOMAIN student_data :
                        InNewerHalf(i) /\ student_data[i].status = "present"}),
        WindowN - WindowN \div 2)
HalfChange == RSub(NewerHalfPct, OlderHalfPct)

\* C6: for a window of N >= 5 records the trend is 'improving' iff the
\* newer half's percentage exceeds the older half's by strictly more than
\* 10 points, 'declining' iff it is lower by strictly more than 10, and
\* 'stable' otherwise (a change of exactly +10 or -10 is stable); 50% then
\* 70% over 20 sessions is 'improving'.
C6_TrendThresholds ==
    (model1_result # NotRun /\ WindowN >= 5) =>
        /\ model1_result.trend = "improving" <=> RGt(HalfChange, RInt(10))
        /\ model1_result.trend = "declining" <=> RLt(HalfChange, RInt(-10))
        /\ model1_result.trend = "stable" <=>
               (RLe(HalfChange, RInt(10)) /\ RGe(HalfChange, RInt(-10)))
        /\ model1_result.metrics.first_half_sessions = WindowN \div 2
        /\ model1_result.metrics.second_half_sessions = WindowN - WindowN \div 2
        /\ (WindowN = 20 /\ OlderHalfPct = RInt(50) /\ NewerHalfPct = RInt(70))
               => model1_result.trend = "improving"

C6_Witness ==
    /\ model1_result # NotRun
    /\ Len(student_data) > 20
    /\ student_data[1].session_date > student_data[2].session_date
    /\ WindowN = 20 /\ OlderHalfPct = RInt(50) /\ NewerHalfPct = RInt(70)
    /\ model1_result.trend = "improving"

(***************************************************************************)
(* Properties of Model 3 (SpecConsistency).                                *)
(***************************************************************************)
AbsentIdx == {i \in DOMAIN student_data : student_data[i].status = "absent"}
Analyzed3 == model3_result # NotRun /\ Len(student_data) >= 5

\* the exact percentages behind the reported counts
M3 == model3_result.metrics
ExactExcusedPct == Pct(M3.excused_count, M3.excused_count + M3.unexcused_count)
ExactClustering ==
    Pct(Cardinality(AbsentIdx) - M3.single_absences, Cardinality(AbsentIdx))

RegularRule ==
    /\ RGe(ExactClustering, RInt(70))
    /\ RGe(ExactExcusedPct, RInt(60))
    /\ M3.consecutive_absence_incidents <= 2
    /\ M3.max_absence_streak <= 7
    /\ M3.single_absences <= 2

HighlyIrregularRule ==
    \/ RLt(ExactClustering, RInt(30))
    \/ RLt(ExactExcusedPct, RInt(30))
    \/ M3.single_absences > 5
    \/ (M3.max_absence_streak > 10 /\ RLt(ExactExcusedPct, RInt(50)))

\* C7: with at least one absence and N >= 5 the classification follows the
\* ordered decision tree: regular iff the five-way conjunction holds, else
\* highly_irregular iff one of the four alternatives holds, else
\* moderately_irregular.
C7_DecisionTree ==
    (Analyzed3 /\ AbsentIdx # {}) =>
        /\ model3_result.consistency \in
               {"regular", "moderately_irregular", "highly_irregular"}
        /\ model3_result.consistency = "regular" <=> RegularRule
        /\ model3_result.consistency = "highly_irregular" <=>
               (~RegularRule /\ HighlyIrregularRule)
        /\ model3_result.consistency = "moderately_irregular" <=>
               (~RegularRule /\ ~HighlyIrregularRule)

\* three runs of two excused absences: only the incident count denies
\* 'regular', and no alternative of the second rule holds
C7_Witness ==
    /\ Analyzed3 /\ AbsentIdx # {}
    /\ M3.consecutive_absence_incidents = 3
    /\ RGe(ExactClustering, RInt(70)) /\ RGe(ExactExcusedPct, RInt(60))
    /\ M3.max_absence_streak <= 7 /\ M3.single_absences <= 2
    /\ model3_result.consistency = "moderately_irregular"

\* a streak above 10 with 30% <= excused% < 50% is the only reason
C7_WitnessLongStreak ==
    /\ Analyzed3 /\ AbsentIdx # {}
    /\ M3.max_absence_streak > 10 /\ RLt(ExactExcusedPct, RInt(50))
    /\ RGe(ExactClustering, RInt(30)) /\ RGe(ExactExcusedPct, RInt(30))
    /\ M3.single_absences <= 5
    /\ model3_result.consistency = "highly_irregular"

\* C8: N >= 5 records without any absence give consistency 'regular',
\* discipline_score 100, clustering_score 0, no incidents, streak or single
\* absences, and the confidence that N determines.
C8_PerfectAttendance ==
    (Analyzed3 /\ AbsentIdx = {}) =>
        /\ model3_result.consistency = "regular"
        /\ M3.discipline_score = 100
        /\ M3.clustering_score = RInt(0)
        /\ M3.consecutive_absence_incidents = 0
        /\ M3.max_absence_streak = 0
        /\ M3.single_absences = 0
        /\ model3_result.confidence =
               (IF Len(student_data) < 10 THEN "low"
                ELSE IF Len(student_data) < 15 THEN "medium" ELSE "high")

C8_Witness ==
    /\ Analyzed3 /\ AbsentIdx = {}
    /\ Len(student_data) = 20
    /\ model3_result.consistency = "regular"
    /\ model3_result.confidence = "high"

\* the absences are one run of consecutive sessions, 2 to 7 long, each
\* with a non-empty reason
AbsentDates == {student_data[i].session_date : i \in AbsentIdx}
OneExcusedRun ==
    /\ Cardinality(AbsentIdx) \in 2..7
    /\ \A d \in AbsentDates : \A e \in AbsentDates :
           \A k \in DOMAIN student_data :
               (d < student_data[k].session_date /\ student_data[k].session_date < e)
                   => k \in AbsentIdx
    /\ \A i \in AbsentIdx :
           student_data[i].reason_type \notin {NoneV, EmptyStr}

\* C9: N >= 5 records whose only absences are one run of 2 to 7
\* consecutive sessions, all excused, give clustering_score 100,
\* excused_percentage 100, no single absences and 'regular'.
C9_OneExcusedRun ==
    (Analyzed3 /\ OneExcusedRun) =>
        /\ M3.clustering_score = RInt(100)
        /\ M3.excused_percentage = RInt(100)
        /\ M3.single_absences = 0
        /\ model3_result.consistency = "regular"

\* the test's case: 20 sessions, sessions 6 to 8 absent with a reason
C9_Witness ==
    /\ Analyzed3 /\ OneExcusedRun
    /\ Len(student_data) = 20 /\ AbsentDates = {6, 7, 8}
    /\ model3_result.consistency = "regular"

\* the run may also end at the last record
C9_WitnessTail ==
    /\ Analyzed3 /\ OneExcusedRun
    /\ Len(student_data) \in AbsentIdx
    /\ model3_result.consistency = "regular"

(***************************************************************************)
(* Properties of Model 4 (SpecAttentiveness).                              *)
(***************************************************************************)
FaceIdx == {i \in DOMAIN student_data : HasFaceData(student_data[i])}
QCount == Cardinality(FaceIdx)
HighCount == Cardinality({i \in FaceIdx : student_data[i].attentiveness = "High"})
PositiveCount ==
    Cardinality({i \in FaceIdx : student_data[i].emotion \in {"happy", "surprise"}})
\* 0.5 * high_ratio + 0.5 * positive_emotion_ratio
ExactFaceScore == R(HighCount + PositiveCount, 2 * QCount)
GatesPass == QCount >= 5 /\ 10 * QCount >= 6 * Len(student_data)

\* C10: when the data gates pass and face_score >= 0.70 the result is
\* 'actively_attentive' and is the same result for every consistency input
\* (regular, moderately_irregular, highly_irregular or none); ten present
\* sessions all High and happy give face_score 1.0.
C10_HighFaceScoreFinal ==
    (model4_result # NotRun /\ GatesPass /\ RGe(ExactFaceScore, R(7, 10))) =>
        /\ model4_result.status = "analyzed"
        /\ model4_result.attentiveness = "actively_attentive"
        /\ \A c \in ConsistencyInputs :
               analyze_attentiveness(student_data, c) = model4_result
        /\ (QCount = 10 /\ HighCount = 10 /\ PositiveCount = 10)
               => model4_result.face_score = RInt(1)

C10_Witness ==
    /\ model4_result # NotRun
    /\ Len(student_data) = 10
    /\ \A i \in DOMAIN student_data :
           /\ student_data[i].status = "present"
           /\ student_data[i].attentiveness = "High"
           /\ student_data[i].emotion = "happy"
    /\ consistency_from_model3 = "highly_irregular"
    /\ model4_result.face_score = RInt(1)
    /\ model4_result.attentiveness = "actively_attentive"

\* exactly at the gate, with an irregular attendance pattern
C10_WitnessAtGate ==
    /\ model4_result # NotRun /\ GatesPass
    /\ ExactFaceScore = R(7, 10)
    /\ consistency_from_model3 = "highly_irregular"
    /\ model4_result.attentiveness = "actively_attentive"


(***************************************************************************)
(* Properties of Model 2 and of the chained pipeline (Spec).               *)
(***************************************************************************)
Feature(name) == features[CHOOSE k \in DOMAIN FEATURE_NAMES : FEATURE_NAMES[k] = name]

Analyzed2 == pc = "done" /\ risk_result.status = "analyzed"
Extracted == Analyzed2 \/ pc = "sampled"

\* The recovery values of the history and plan at hand, from their definitions
PresentCount == Len(SelectSeq(student_data, IsPresent))
TrueRemaining == Max2(0, risk_args.total_sessions_planned - Len(student_data))
TrueBestPossible ==
    Pct(PresentCount + TrueRemaining, risk_args.total_sessions_planned)
TrueNeeded ==
    Max2(0, RCeil(RSub(RMul(R(3, 4), RInt(risk_args.total_sessions_planned)),
                       RInt(PresentCount))))

RequiredRateTier ==
    LET needed == Feature("sessions_needed_to_reach_75")
        remaining == Feature("sessions_remaining")
        requiredRate == IF RGt(remaining, RInt(0))
                        THEN RMul(RDiv(needed, remaining), RInt(100)) ELSE RInt(100)
    IN  IF RGe(requiredRate, RInt(90)) THEN "very_difficult"
        ELSE IF RGe(requiredRate, RInt(70)) THEN "challenging" ELSE "achievable"

\* C1: in a full analysis the recommendation branch follows the vector's own
\* recovery values: recovery_possible = 0 gives the impossible-recovery
\* messages citing the best-possible feature; otherwise current < 75 gives the
\* below-threshold messages tiered by needed/remaining*100 at 90 and 70;
\* otherwise the above-75 messages.
C1_BranchFromRecoveryFeatures ==
    Analyzed2 =>
        LET rec == risk_result.recommendations
        IN  IF Feature("recovery_possible") = RInt(0) THEN
                /\ rec.branch = "recovery_impossible"
                /\ rec.best_possible = Feature("best_possible_attendance")
            ELSE IF RLt(Feature("current_attendance_percentage"), RInt(75)) THEN
                /\ rec.branch = "below_threshold"
                /\ rec.sessions_needed = Feature("sessions_needed_to_reach_75")
                /\ rec.sessions_remaining = Feature("sessions_remaining")
                /\ rec.tier = RequiredRateTier
            ELSE rec.branch = "above_threshold"

\* C2: at 90% attendance with recovery possible and sessions remaining, the
\* text is the above-75 one and its affordable-absence count is positive
\* whenever floor((current - 75)/100 * remaining) over the true remaining
\* sessions is positive.
C2_PositiveBufferAt90 ==
    (/\ Analyzed2
     /\ Feature("current_attendance_percentage") = RInt(90)
     /\ Feature("recovery_possible") = RInt(1)
     /\ TrueRemaining > 0)
    => /\ risk_result.recommendations.branch = "above_threshold"
       /\ (RFloor(RMul(R(90 - 75, 100), RInt(TrueRemaining))) > 0
           => risk_result.recommendations.max_absences > 0)

\* C3: the analyzed result reports the extractor's recovery values:
\* recovery_possible iff (present + remaining)/planned*100 >= 75,
\* best_possible_attendance that percentage, sessions_needed_to_reach_75 =
\* max(0, ceil(0.75*planned - present)), sessions_remaining = max(0, planned - N).
C3_ReportedRecoveryFields ==
    Analyzed2 =>
        /\ risk_result.recovery_possible = RGe(TrueBestPossible, RInt(75))
        /\ risk_result.best_possible_attendance = TrueBestPossible
        /\ risk_result.sessions_needed_to_reach_75 = TrueNeeded
        /\ risk_result.sessions_remaining = TrueRemaining

\* C4: every extracted vector has exactly 45 values, in the order 7
\* current-state, 7 trend, 7 pattern, 5 engagement, 5 temporal, 8 recovery,
\* 6 class-context.
C4_FortyFiveInOrder ==
    Extracted =>
        /\ Len(features) = 45
        /\ Len(features) = Len(FEATURE_NAMES)
        /\ SubSeq(features, 1, 7) = current_state_features(student_data)
        /\ SubSeq(features, 8, 14) = trend_features(student_data, model1_result)
        /\ SubSeq(features, 15, 21) = pattern_features(student_data, model3_result)
        /\ SubSeq(features, 22, 26) = engagement_features(student_data, model4_result)
        /\ SubSeq(features, 27, 31) =
               temporal_features(student_data, risk_args.total_sessions_planned,
                                 risk_args.now)
        /\ SubSeq(features, 32, 39) =
               recovery_features(student_data, risk_args.total_sessions_planned)
        /\ SubSeq(features, 40, 45) =
               class_context_features(student_data, risk_args.class_data)

\* a vector extracted from a long history with absences and a class snapshot
C4_Witness ==
    /\ Analyzed2
    /\ Len(student_data) = 15
    /\ Len(SelectSeq(student_data, IsAbsent)) > 0
    /\ risk_args.class_data = ClassA
    /\ Len(features) = 45

\* a vector extracted from an empty history
C4_WitnessEmpty == pc = "sampled" /\ student_data = <<>> /\ Len(features) = 45

\* C5: in the chained pipeline the pattern features carry Model 3's values:
\* consecutive_absences_max is its max_absence_streak and
\* absence_clustering_score its clustering_score, for N >= 5.
C5_PatternFromModel3 ==
    (/\ Analyzed2
     /\ Len(student_data) >= 5
     /\ "max_absence_streak" \in DOMAIN model3_result.metrics)
    => /\ Feature("consecutive_absences_max") =
              RInt(model3_result.metrics.max_absence_streak)
       /\ Feature("absence_clustering_score") = model3_result.metrics.clustering_score

(***************************************************************************)
(* Further properties of Model 4 (SpecAttentiveness).                      *)
(***************************************************************************)
\* The label the two borderline rules give a face score and a consistency
BorderlineLabel(face_score, consistency) ==
    IF RGe(face_score, R(40, 100))
    THEN (IF consistency = "regular" /\ RGe(face_score, R(50, 100))
          THEN "actively_attentive" ELSE "moderately_attentive")
    ELSE (IF consistency = "regular" /\ RGe(face_score, R(30, 100))
          THEN "moderately_attentive" ELSE "passively_attentive")

\* C11: below the 0.70 gate, 0.40 <= face_score gives 'actively_attentive'
\* iff consistency is 'regular' and face_score >= 0.50, else
\* 'moderately_attentive'; face_score < 0.40 gives 'moderately_attentive' iff
\* consistency is 'regular' and face_score >= 0.30, else
\* 'passively_attentive'; a consistency other than 'regular' never changes
\* the label.
C11_BorderlineRules ==
    (model4_result # NotRun /\ GatesPass /\ RLt(ExactFaceScore, R(70, 100))) =>
        /\ model4_result.status = "analyzed"
        /\ model4_result.attentiveness =
               BorderlineLabel(ExactFaceScore, consistency_from_model3)
        /\ \A c \in ConsistencyInputs \ {"regular"} :
               analyze_attentiveness(student_data, c).attentiveness =
                   analyze_attentiveness(student_data, NoneV).attentiveness

\* C12: the terminal statuses are gated in order on the count q of present
\* records carrying both attentiveness and emotion: q = 0 gives 'no_data'
\* with attentiveness null; 1 <= q <= 4 gives 'early_stage',
\* 'moderately_attentive', confidence 'none'; otherwise q/total_records < 0.6
\* gives 'low_quality_data', 'moderately_attentive'; only otherwise is the
\* status 'analyzed'.
C12_GateOrder ==
    model4_result # NotRun =>
        IF QCount = 0 THEN
            /\ model4_result.status = "no_data"
            /\ model4_result.attentiveness = NoneV
        ELSE IF QCount <= 4 THEN
            /\ model4_result.status = "early_stage"
            /\ model4_result.attentiveness = "moderately_attentive"
            /\ model4_result.confidence = "none"
        ELSE IF RLt(R(QCount, Len(student_data)), R(6, 10)) THEN
            /\ model4_result.status = "low_quality_data"
            /\ model4_result.attentiveness = "moderately_attentive"
        ELSE model4_result.status = "analyzed"

\* few qualifying records that are also a minority of the records: the
\* session-count gate answers first
C12_Witness ==
    /\ model4_result # NotRun
    /\ QCount \in 1..4
    /\ RLt(R(QCount, Len(student_data)), R(6, 10))
    /\ model4_result.status = "early_stage"
    /\ model4_result.confidence = "none"

\* enough qualifying records, but a minority of the records
C12_WitnessLowQuality ==
    /\ model4_result # NotRun
    /\ QCount >= 5
    /\ model4_result.status = "low_quality_data"

(***************************************************************************)
(* Properties shared by the stages (Spec).                                 *)
(***************************************************************************)
ConfidenceTier(n) ==
    IF n < 5 THEN "none" ELSE IF n < 10 THEN "low"
    ELSE IF n < 15 THEN "medium" ELSE "high"
ConfidenceRank(c) ==
    IF c = "none" THEN 0 ELSE IF c = "low" THEN 1 ELSE IF c = "medium" THEN 2 ELSE 3

\* C13: trend and consistency confidence is none for N < 5, low for
\* 5 <= N < 10, medium for 10 <= N < 15 and high for N >= 15 (N the window
\* size for trend, the history length for consistency), so a history never
\* has a lower confidence than any of its prefixes.
C13_ConfidenceTiers ==
    (model1_result # NotRun /\ model3_result # NotRun) =>
        /\ model1_result.confidence = ConfidenceTier(Min2(WindowCap, Len(student_data)))
        /\ model3_result.confidence = ConfidenceTier(Len(student_data))
        /\ \A k \in 0..Len(student_data) :
               LET prefix == Take(student_data, k)
                   trend == calculate_trend_analysis(prefix)
                   consistency == calculate_consistency_analysis(prefix)
               IN  /\ trend.confidence = ConfidenceTier(Min2(WindowCap, k))
                   /\ consistency.confidence = ConfidenceTier(k)
                   /\ ConfidenceRank(trend.confidence)
                          <= ConfidenceRank(model1_result.confidence)
                   /\ ConfidenceRank(consistency.confidence)
                          <= ConfidenceRank(model3_result.confidence)

\* a history at the threshold of 'high' whose prefix one record shorter is
\* 'medium'
C13_Witness ==
    /\ model1_result # NotRun /\ model3_result # NotRun
    /\ Len(student_data) = 15
    /\ model1_result.confidence = "high"
    /\ model3_result.confidence = "high"
    /\ calculate_consistency_analysis(Take(student_data, 14)).confidence = "medium"
    /\ calculate_trend_analysis(Take(student_data, 14)).confidence = "medium"

\* C14: an empty record list gives each of the four stages a result with
\* the no_data marker: trend 'no_data', consistency 'no_data', attentiveness
\* status 'no_data' and risk status 'no_data', each with confidence 'none'
\* or null.
C14_EmptyIsNoData ==
    (student_data = <<>>) =>
        /\ (model1_result # NotRun) =>
               (model1_result.trend = "no_data" /\ model1_result.confidence = "none")
        /\ (model3_result # NotRun) =>
               (model3_result.consistency = "no_data"
                /\ model3_result.confidence = "none")
        /\ (model4_result # NotRun) =>
               (model4_result.status = "no_data"
                /\ model4_result.attentiveness = NoneV
                /\ model4_result.confidence = "none")
        /\ (pc = "done") =>
               (risk_result.status = "no_data"
                /\ risk_result.risk = NoneV
                /\ risk_result.confidence = NoneV)

\* all four stages have answered the empty history
C14_Witness ==
    /\ student_data = <<>>
    /\ pc = "done"
    /\ model1_result.trend = "no_data"
    /\ model3_result.consistency = "no_data"
    /\ model4_result.status = "no_data"
    /\ risk_result.status = "no_data"

C15_WitnessFive ==
    /\ pc = "done"
    /\ Len(student_data) = 5
    /\ risk_result.status = "analyzed"
    /\ predict_calls = 1

\* C16: re-running a stage on the same identically-ordered records and the
\* same other inputs gives an identical result whatever the time of the
\* call: no output depends on anything but the stage's arguments.
C16_RerunIdentical ==
    /\ (model1_result # NotRun) => calculate_trend_analysis(student_data) = model1_result
    /\ (model3_result # NotRun) =>
           calculate_consistency_analysis(student_data) = model3_result
    /\ (model4_result # NotRun) =>
           analyze_attentiveness(student_data, consistency_from_model3) = model4_result
    /\ Extracted =>
           \A now \in NowChoices :
               extract_features(student_data, model1_result, model3_result,
                                model4_result, risk_args.class_data,
                                risk_args.total_sessions_planned, now) = features

(***************************************************************************)
(* Start-up of the risk predictor (SpecStartup).                           *)
(***************************************************************************)
ManifestAgrees ==
    "feature_names" \in DOMAIN artifact /\ artifact.feature_names = FEATURE_NAMES

\* C17: start-up fails fatally (non-zero exit, no request served) both when
\* the artifact is missing and when its feature-name manifest differs from
\* the extractor's 45 names; it succeeds only when the artifact is present
\* and the manifest agrees.
C17_StartupChecksArtifact ==
    (pc # "import") =>
        /\ (startup = "loaded") <=> ManifestAgrees
        /\ (~ManifestAgrees) => (startup = "exit_1" /\ risk_result = NotRun)


(***************************************************************************)
(* Order of the input list (Spec).                                         *)
(***************************************************************************)
DistinctDates(records) ==
    \A i, j \in DOMAIN records :
        i # j => records[i].session_date # records[j].session_date

OrderSensitiveFeatures ==
    {"recent_5_attendance_rate", "recent_10_attendance_rate", "trend_slope",
     "trend_acceleration", "attendance_stability"}

\* the same call with the input list in the opposite order
FeaturesOfReversed ==
    extract_features(Reverse(student_data), model1_result, model3_result,
        model4_result, risk_args.class_data, risk_args.total_sessions_planned,
        risk_args.now)

TrendOrderFree ==
    (pc # "model1") => calculate_trend_analysis(Reverse(student_data)) = model1_result
ConsistencyOrderFree ==
    (pc \notin {"model1", "model3"}) =>
        calculate_consistency_analysis(Reverse(student_data)) = model3_result
ExtractorOrderFree ==
    Extracted =>
        \A k \in DOMAIN FEATURE_NAMES :
            FEATURE_NAMES[k] \in OrderSensitiveFeatures =>
                FeaturesOfReversed[k] = features[k]

\* C18: for records with pairwise distinct dates, the trend result, the
\* consistency result and the extractor's order-sensitive features (recent-5
\* and recent-10 rates, half-split slope, thirds acceleration, rolling
\* stability) are the same when the input list is given in another order.
C18_InputOrderIrrelevant ==
    DistinctDates(student_data) =>
        TrendOrderFree /\ ConsistencyOrderFree /\ ExtractorOrderFree


(***************************************************************************)
(* Excused absences across the stages (Spec).                              *)
(***************************************************************************)
EmptyReasonAbsences ==
    Len(SelectSeq(student_data,
                  LAMBDA r : r.status = "absent" /\ r.reason_type = EmptyStr))
NamedReasonAbsences ==
    Len(SelectSeq(student_data,
                  LAMBDA r : r.status = "absent" /\ r.reason_type \notin {EmptyStr, NoneV}))
Model3CountsExcused ==
    "metrics" \in DOMAIN model3_result /\ "excused_count" \in DOMAIN model3_result.metrics

\* C19: an absence is excused iff its reasonType is non-empty, in every
\* stage: the extractor's excused-absences feature equals the consistency
\* stage's excused_count, and an absent record whose reasonType is the empty
\* string is counted as unexcused by both.
C19_ExcusedSameInEveryStage ==
    (Extracted /\ Model3CountsExcused) =>
        /\ Feature("excused_absence_count") = RInt(model3_result.metrics.excused_count)
        /\ model3_result.metrics.excused_count = NamedReasonAbsences
        /\ Feature("excused_absence_count") = RInt(NamedReasonAbsences)


(***************************************************************************)
(* Failures of one unit of work (SpecBatches).                             *)
(***************************************************************************)
LoggedAs(what) == Len(SelectSeq(log, LAMBDA e : e.what = what))
EnteredImageLoop == img_idx >= 1

\* C20: an exception while one unit is processed (one detected face or one
\* undecodable image of /recognize, one sample of the training loop) is
\* caught and that unit skipped; the remaining units are still processed and
\* returned, and no failure inside the per-image loop aborts the request.
C20_UnitFailureSkipsUnit ==
    /\ (rpc = "sent" /\ EnteredImageLoop) =>
           /\ response.status_code = 200
           /\ Len(response.processed_images) + LoggedAs("Error decoding image")
                  = Len(body.images)
    /\ (unit > Len(Units)) =>
           Len(X) + Len(train_warnings) = Len(Units)


(***************************************************************************)
(* Incidents and clustering (SpecConsistency).                             *)
(***************************************************************************)
\* chronological positions (1 = oldest) of the absent records
AbsentRanks ==
    {Cardinality({k \in DOMAIN student_data :
                     student_data[k].session_date <= student_data[i].session_date}) :
        i \in AbsentIdx}
\* an absence belongs to a run when a neighbour in time is absent too; a
\* maximal run of two or more starts where the session before is not absent
InRuns == {r \in AbsentRanks : (r - 1) \in AbsentRanks \/ (r + 1) \in AbsentRanks}
RunStarts == {r \in InRuns : (r - 1) \notin AbsentRanks}
RunAtLastRecord == Len(student_data) \in InRuns
ClusteringOfRuns == Pct(Cardinality(InRuns), Cardinality(AbsentRanks))

\* C21: with N >= 5 and an absence, the incidents are exactly the maximal
\* runs of two or more consecutive absent records in chronological order, a
\* run ending at the last record included; single absences plus absences
\* inside runs are all the absences; clustering_score is
\* absences_in_runs / total_absences * 100 (reported to two decimals), lies
\* in [0, 100], and is 0 iff there is no incident.
C21_IncidentsAreMaximalRuns ==
    (Analyzed3 /\ AbsentIdx # {}) =>
        /\ M3.consecutive_absence_incidents = Cardinality(RunStarts)
        /\ M3.single_absences = Cardinality(AbsentRanks \ InRuns)
        /\ M3.single_absences + Cardinality(InRuns) = Cardinality(AbsentIdx)
        /\ ExactClustering = ClusteringOfRuns
        /\ M3.clustering_score = Round2(ClusteringOfRuns)
        /\ RGe(M3.clustering_score, RInt(0)) /\ RLe(M3.clustering_score, RInt(100))
        /\ (M3.clustering_score = RInt(0)) <=> (M3.consecutive_absence_incidents = 0)

\* two runs, the second one ending at the last record, and a single absence:
\* 5 of 6 absences are inside runs, reported as 83.33
C21_Witness ==
    /\ Analyzed3 /\ AbsentIdx # {}
    /\ RunAtLastRecord
    /\ Cardinality(RunStarts) = 2
    /\ Cardinality(AbsentRanks \ InRuns) = 1
    /\ Cardinality(InRuns) = 5
    /\ M3.clustering_score = R(8333, 100)

\* scattered absences only: no incident and clustering 0
C21_WitnessNoIncident ==
    /\ Analyzed3 /\ Cardinality(AbsentIdx) >= 2
    /\ RunStarts = {}
    /\ M3.clustering_score = RInt(0)


(***************************************************************************)
(* The discipline score (SpecConsistency).                                 *)
(***************************************************************************)
ClusteringPoints ==
    IF RGe(ExactClustering, RInt(70)) THEN 30
    ELSE IF RGe(ExactClustering, RInt(40)) THEN 15 ELSE 0
ExcusedPoints ==
    IF RGe(ExactExcusedPct, RInt(80)) THEN 25
    ELSE IF RGe(ExactExcusedPct, RInt(50)) THEN 15
    ELSE IF RGe(ExactExcusedPct, RInt(30)) THEN 5 ELSE 0
IncidentPoints ==
    IF M3.consecutive_absence_incidents = 0 THEN 20
    ELSE IF M3.consecutive_absence_incidents <= 2 THEN 15
    ELSE IF M3.consecutive_absence_incidents <= 4 THEN 5 ELSE 0
StreakPoints ==
    IF M3.max_absence_streak <= 3 THEN 15
    ELSE IF M3.max_absence_streak <= 5 THEN 10
    ELSE IF M3.max_absence_streak <= 7 THEN 5 ELSE 0
SinglePoints ==
    IF M3.single_absences = 0 THEN 10
    ELSE IF M3.single_absences <= 2 THEN 5 ELSE 0

\* C22: with N >= 5 and an absence, discipline_score is the sum of the five
\* tiered factor scores (clustering 30/15/0, excused% 25/15/5/0, incidents
\* 20/15/5/0, max streak 15/10/5/0, single absences 10/5/0) and lies
\* between 0 and 100.
C22_DisciplineIsSumOfFactors ==
    (Analyzed3 /\ AbsentIdx # {}) =>
        /\ M3.discipline_score =
               ClusteringPoints + ExcusedPoints + IncidentPoints + StreakPoints
                   + SinglePoints
        /\ M3.discipline_score \in 0..100

\* one run of exactly three absences and one single absence, half of them
\* excused: 30 + 15 + 15 + 15 + 5
C22_Witness ==
    /\ Analyzed3 /\ AbsentIdx # {}
    /\ M3.max_absence_streak = 3
    /\ M3.consecutive_absence_incidents = 1
    /\ M3.single_absences = 1
    /\ ExactExcusedPct = RInt(50)
    /\ M3.discipline_score = 80


(***************************************************************************)
(* Confidence of an analysed attentiveness result (SpecAttentiveness).     *)
(***************************************************************************)
MediumCount == Cardinality({i \in FaceIdx : student_data[i].attentiveness = "Medium"})
LowCount == Cardinality({i \in FaceIdx : student_data[i].attentiveness = "Low"})
ScoreCount == HighCount + MediumCount + LowCount
ScoreSum == 3 * HighCount + 2 * MediumCount + LowCount
ScoreSquares == 9 * HighCount + 4 * MediumCount + LowCount
\* the standard deviation of the 3/2/1 scores exceeds 0.8 iff their
\* variance exceeds 16/25
StdExceedsEightTenths ==
    /\ ScoreCount > 1
    /\ 25 * (ScoreCount * ScoreSquares - ScoreSum * ScoreSum) > 16 * ScoreCount * ScoreCount
StdIsEightTenths ==
    /\ ScoreCount > 1
    /\ 25 * (ScoreCount * ScoreSquares - ScoreSum * ScoreSum) = 16 * ScoreCount * ScoreCount

DerivedConfidenceScore ==
    100 - (IF QCount < 10 THEN 30 ELSE IF QCount < 20 THEN 15 ELSE 0)
        - (IF 10 * QCount < 8 * Len(student_data) THEN 20 ELSE 0)
        - (IF StdExceedsEightTenths THEN 15 ELSE 0)
DerivedConfidence ==
    IF DerivedConfidenceScore < 30 THEN "none"
    ELSE IF DerivedConfidenceScore < 50 THEN "low"
    ELSE IF DerivedConfidenceScore < 75 THEN "medium"
    ELSE "high"
Analyzed4 == model4_result # NotRun /\ model4_result.status = "analyzed"

\* C23: for an 'analyzed' attentiveness result the confidence comes from
\* score = 100, minus 30 if qualifying sessions < 10 (else minus 15 if < 20),
\* minus 20 if data_quality < 0.8, minus 15 if the standard deviation of the
\* 3/2/1 attentiveness scores exceeds 0.8; none / low / medium / high for
\* score < 30 / < 50 / < 75 / >= 75.
C23_ConfidenceDerivation ==
    Analyzed4 => model4_result.confidence = DerivedConfidence

\* the derivation away from a deviation of exactly 0.8
C23_ExceptAtEightTenths ==
    (Analyzed4 /\ ~StdIsEightTenths) => model4_result.confidence = DerivedConfidence


(***************************************************************************)
(* The relative-performance-trend feature (Spec).                          *)
(***************************************************************************)
\* ClassA with every student's present sessions moved to the end, or spread
\* evenly: the same attendance per student, another half-over-half slope
ShiftedStudent(student, shape) ==
    LET n == Len(student.records)
        p == Len(SelectSeq(student.records, IsPresent))
    IN  [student EXCEPT !.records =
            [j \in 1..n |->
                [@[j] EXCEPT !.status =
                    IF shape = "late" THEN (IF j > n - p THEN "present" ELSE "absent")
                    ELSE (IF (j * p) \div n > ((j - 1) * p) \div n
                          THEN "present" ELSE "absent")]]]
ShiftedClass(shape) ==
    IF shape = "early" THEN ClassA
    ELSE [ClassA EXCEPT !.students =
             [k \in DOMAIN ClassA.students |-> ShiftedStudent(ClassA.students[k], shape)]]
ClassShapes == {"early", "late", "even"}

ClassMean(class_data) ==
    RMean([k \in DOMAIN class_data.students |->
              PresentRate(class_data.students[k].records)])
ClassSlope(class_data) ==
    LET half(k) == Len(class_data.students[k].records) \div 2
    IN  RSub(RMean([k \in DOMAIN class_data.students |->
                       PresentRate(Drop(class_data.students[k].records, half(k)))]),
             RMean([k \in DOMAIN class_data.students |->
                       PresentRate(Take(class_data.students[k].records, half(k)))]))

LongHistories == {h \in PipelineHistories : Len(h) >= 10}
RelativeTrendOf(h, class_data) == class_context_features(h, class_data)[6]

\* some student history gets different values under two snapshots of equal
\* class mean and different class slope
DependsOnClassSlope ==
    \E h \in LongHistories : \E s1, s2 \in ClassShapes :
        /\ ClassMean(ShiftedClass(s1)) = ClassMean(ShiftedClass(s2))
        /\ ClassSlope(ShiftedClass(s1)) # ClassSlope(ShiftedClass(s2))
        /\ RelativeTrendOf(h, ShiftedClass(s1)) # RelativeTrendOf(h, ShiftedClass(s2))

ClassHasLongMember ==
    /\ HasStudents(risk_args.class_data)
    /\ \E k \in DOMAIN risk_args.class_data.students :
           Len(risk_args.class_data.students[k].records) >= 10

RelativeTrendValues ==
    Extracted =>
        /\ Feature("relative_performance_trend") \in
               {RInt(1), R(1, 2), RInt(0), R(-1, 2), RInt(-1)}
        /\ (Len(student_data) < 10 \/ ~ClassHasLongMember) =>
               Feature("relative_performance_trend") = RInt(0)

\* the snapshots have one mean and three different slopes, and the feature
\* is the same under all of them
SlopeIgnored ==
    /\ \A s1, s2 \in ClassShapes :
           /\ ClassMean(ShiftedClass(s1)) = ClassMean(ShiftedClass(s2))
           /\ s1 # s2 => ClassSlope(ShiftedClass(s1)) # ClassSlope(ShiftedClass(s2))
    /\ \A h \in LongHistories : \A s1, s2 \in ClassShapes :
           RelativeTrendOf(h, ShiftedClass(s1)) = RelativeTrendOf(h, ShiftedClass(s2))

\* C24: the relative-performance-trend feature is one of 1, 0.5, 0, -0.5,
\* -1; it is 0 unless the student has N >= 10 records and a class member
\* has >= 10 records; and its value depends on the class's half-over-half
\* slope: two snapshots with the same class mean and different slopes can
\* give different values.
C24_RelativeTrendUsesClassSlope ==
    RelativeTrendValues /\ DependsOnClassSlope


(***************************************************************************)
(* C25: the recovery difficulty tiers over whole-number inputs              *)
(***************************************************************************)
Recovered == pc = "recovered"
RecPresent == PresentCount
RecPlanned == risk_args.total_sessions_planned
RecRemaining == TrueRemaining
RecNeeded == TrueNeeded
\* best possible attendance (present + remaining) / planned >= 75%
RecPossible ==
    RecPlanned > 0 /\ 100 * (RecPresent + RecRemaining) >= 75 * RecPlanned

TierTableValue ==
    IF ~RecPossible THEN RInt(-1)
    ELSE IF RecNeeded = 0 \/ 10 * RecNeeded <= 3 * RecRemaining THEN RInt(1)
    ELSE IF 10 * RecNeeded <= 7 * RecRemaining THEN R(1, 2)
    ELSE IF RecNeeded <= RecRemaining THEN R(2, 10)
    ELSE RInt(-1)

\* C25, first part: the feature is the tier table's value
DifficultyFollowsTable == Recovered => features[6] = TierTableValue
\* C25, second part: the feature is -1 exactly when recovery is impossible
ImpossibleIffMinusOne ==
    Recovered => ((features[6] = RInt(-1)) <=> (features[4] = RInt(0)))

\* C25: recoveryDifficulty follows the tier table (-1 impossible; 1 when
\* nothing is needed or at most 30% of the remaining sessions; 0.5 up to 70%;
\* 0.2 up to all of them) and is -1 exactly when recoveryPossible = 0
C25_DifficultyTierTable == DifficultyFollowsTable /\ ImpossibleIffMinusOne

\* The table is followed whenever 70% of the remaining sessions is not one of
\* the products that double arithmetic places below its exact value
C25_ExceptAtRoundedProduct ==
    (Recovered /\ ~SeventyPercentRoundsBelow(RecRemaining))
        => features[6] = TierTableValue
\* the medium tier's boundary is met: 63 needed of 90 remaining
C25_AtBoundary == Recovered /\ RecNeeded = 63 /\ RecRemaining = 90 /\ RecPossible


(***************************************************************************)
(* C26: the absence streak and the analysis window                          *)
(***************************************************************************)
TrendAnalyzed == pc = "model3" /\ "consecutive_absence_streak" \in DOMAIN model1_result.metrics
\* C26: consecutive_absence_streak <= metrics.total_sessions <= 20 for every
\* history, whatever its length
C26_StreakWithinWindow ==
    TrendAnalyzed =>
        /\ model1_result.metrics.consecutive_absence_streak
               <= model1_result.metrics.total_sessions
        /\ model1_result.metrics.total_sessions <= WindowCap

\* total_sessions never exceeds the window
C26_WindowCapped ==
    pc = "model3" => model1_result.metrics.total_sessions <= WindowCap
\* the streak is bounded by the number of records, not by the window
C26_StreakWithinHistory ==
    TrendAnalyzed =>
        model1_result.metrics.consecutive_absence_streak <= Len(student_data)
\* more than 20 records, all absent
C26_LongAbsence ==
    /\ TrendAnalyzed
    /\ Len(student_data) > WindowCap
    /\ \A i \in DOMAIN student_data : student_data[i].status = "absent"


(***************************************************************************)
(* C27: absences that never touch each other                                *)
(***************************************************************************)
\* no absent record is followed by another absent record
NoAdjacentAbsences ==
    \A i \in AbsentIdx : (i + 1) \notin AbsentIdx
AllAbsencesExcused ==
    \A i \in AbsentIdx : student_data[i].reason_type # NoneV

\* C27: with N >= 5, at least one absence and no two consecutive absences the
\* result is highly_irregular; a regular result with an absence has 1 or 2
\* incidents
C27_IsolatedAbsencesHighlyIrregular ==
    Analyzed3 /\ AbsentIdx # {} =>
        /\ NoAdjacentAbsences => model3_result.consistency = "highly_irregular"
        /\ model3_result.consistency = "regular" =>
               M3.consecutive_absence_incidents \in 1..2

\* one absence only, excused, and still highly_irregular
C27_Witness ==
    /\ Analyzed3
    /\ Cardinality(AbsentIdx) = 1
    /\ AllAbsencesExcused
    /\ M3.consecutive_absence_incidents = 0
    /\ model3_result.consistency = "highly_irregular"
\* a regular result with absences in two incidents
C27_WitnessRegular ==
    /\ Analyzed3
    /\ AbsentIdx # {}
    /\ model3_result.consistency = "regular"
    /\ M3.consecutive_absence_incidents = 2


(***************************************************************************)
(* C28: data quality is measured against all records                        *)
(***************************************************************************)
\* fewer than 60% of all records are Present records with face data
FaceShareBelowSixty == 10 * QCount < 6 * Len(student_data)
DefaultLabel ==
    IF model4_result.status = "no_data" THEN model4_result.attentiveness = NoneV
    ELSE model4_result.attentiveness = "moderately_attentive"

\* C28: when the Present records with face data are fewer than 60% of all
\* records the status is never 'analyzed': it is no_data, early_stage or
\* low_quality_data, with the default label
C28_LowShareNeverAnalyzed ==
    (model4_result # NotRun /\ FaceShareBelowSixty) =>
        /\ model4_result.status \in {"no_data", "early_stage", "low_quality_data"}
        /\ DefaultLabel

\* every qualifying record is High and happy, and they are at least 60% of
\* the Present records, yet below 60% of all records
C28_Witness ==
    /\ model4_result # NotRun
    /\ QCount >= 5
    /\ HighCount = QCount
    /\ PositiveCount = QCount
    /\ FaceShareBelowSixty
    /\ 10 * QCount >= 6 * PresentCount
    /\ model4_result.status = "low_quality_data"
    /\ model4_result.attentiveness = "moderately_attentive"


(***************************************************************************)
(* C29: failure certainty at or above 75%                                   *)
(***************************************************************************)
\* current attendance present / N is at least 75%
AtOrAboveRequired == 4 * RecPresent >= 3 * Len(student_data)
\* floor((current - 75) / 100 * remaining), in whole numbers
ExactAllowance ==
    ((100 * RecPresent - 75 * Len(student_data)) * RecRemaining)
        \div (100 * Len(student_data))

\* C29: at or above 75%, with recovery possible and a planned session
\* remaining, failureCertainty is 0.3
C29_FailureCertaintyThreeTenths ==
    (Recovered /\ AtOrAboveRequired /\ RecPossible /\ RecRemaining >= 1)
        => features[8] = R(3, 10)

\* the allowance is positive, and still below 30% of the remaining sessions
C29_Witness ==
    /\ Recovered /\ AtOrAboveRequired /\ RecPossible
    /\ RecRemaining >= 1
    /\ ExactAllowance >= 1
    /\ 10 * ExactAllowance < 3 * RecRemaining
    /\ features[8] = R(3, 10)
\* nothing remains: the 0.0 band
C29_WitnessNoneRemaining ==
    /\ Recovered /\ AtOrAboveRequired /\ RecPossible
    /\ RecRemaining = 0
    /\ features[8] = RInt(0)
\* the allowance never reaches 30% of a positive number of remaining sessions
C29_AllowanceBelowBands ==
    (Recovered /\ AtOrAboveRequired /\ RecRemaining >= 1)
        => 10 * ExactAllowance < 3 * RecRemaining


(***************************************************************************)
(* C30: the entry kept for a recognized student                             *)
(***************************************************************************)
\* no face was given up on and the request was not aborted, so every face
\* processed so far went through the match and the drawing
NoFaceFailure ==
    /\ "images" \in DOMAIN body
    /\ \A k \in DOMAIN log : log[k].what \notin {"Error processing face", "Recognition error"}
\* face j of image i has been through the face loop
ProcessedFace(i, j) ==
    IF rpc = "face" THEN i < img_idx \/ (i = img_idx /\ j < face_idx)
    ELSE IF rpc = "stamp" THEN i <= img_idx
    ELSE IF rpc \in {"decode", "detect"} THEN i < img_idx
    ELSE rpc = "respond" \/ (rpc = "sent" /\ response.status_code = 200)
FacePositions ==
    {p \in (DOMAIN body.images) \X (1..MaxFaces) : p[2] \in DOMAIN body.images[p[1]].faces}
FaceAt(p) == body.images[p[1]].faces[p[2]]
\* the matched detections of usn so far
DetectionsOf(usn) ==
    {p \in FacePositions :
        /\ ProcessedFace(p[1], p[2])
        /\ FaceAt(p).w >= 20 /\ FaceAt(p).h >= 20 /\ FaceAt(p).crop_size # 0
        /\ student_map[best_idx(FaceAt(p))].usn = usn
        /\ FaceAt(p).similarity[usn] >= SIMILARITY_THRESHOLD}
\* the emotion the detection came with: neutral when the analysis failed
DetectedEmotion(p) ==
    IF \E k \in DOMAIN log :
           /\ log[k].what = "Emotion detection failed"
           /\ log[k].image = p[1] /\ log[k].face = p[2]
    THEN "neutral" ELSE FaceAt(p).emotion
EntriesOf(usn) == {k \in DOMAIN recognized_students : recognized_students[k].usn = usn}

OneEntryPerStudent ==
    \A usn \in Usns :
        Cardinality(EntriesOf(usn)) = IF DetectionsOf(usn) = {} THEN 0 ELSE 1
EmotionIsBestSoFar ==
    \A usn \in Usns : \A k \in EntriesOf(usn) :
        /\ \E p \in DetectionsOf(usn) : recognized_students[k].emotion = DetectedEmotion(p)
        /\ \A p \in DetectionsOf(usn) :
               emotion_priority(recognized_students[k].emotion)
                   >= emotion_priority(DetectedEmotion(p))
AttentivenessFromEmotion ==
    \A k \in DOMAIN recognized_students :
        recognized_students[k].attentiveness
            = attentiveness_of(recognized_students[k].emotion)
ConfidenceIsMaximum ==
    \A usn \in Usns : \A k \in EntriesOf(usn) :
        /\ \E p \in DetectionsOf(usn) :
               recognized_students[k].confidence = FaceAt(p).similarity[usn]
        /\ \A p \in DetectionsOf(usn) :
               recognized_students[k].confidence >= FaceAt(p).similarity[usn]

\* C30: each recognized student has exactly one entry; its emotion has the
\* highest priority among the student's detections so far, its attentiveness
\* is the level mapped from that emotion, and its confidence is the maximum
\* similarity score over all of the student's detections
C30_EntryKeepsBestOfDetections ==
    NoFaceFailure =>
        /\ OneEntryPerStudent
        /\ EmotionIsBestSoFar
        /\ AttentivenessFromEmotion
        /\ ConfidenceIsMaximum

\* everything in the claim but the maximum
C30_ExceptMaximum ==
    NoFaceFailure =>
        /\ OneEntryPerStudent
        /\ EmotionIsBestSoFar
        /\ AttentivenessFromEmotion
\* the stored confidence of an entry never decreases
C30_ConfidenceNeverDecreases ==
    [][\A k \in DOMAIN recognized_students :
           /\ k \in DOMAIN recognized_students'
           /\ recognized_students'[k].usn = recognized_students[k].usn
           /\ recognized_students'[k].confidence >= recognized_students[k].confidence]_vars
\* a student detected twice, the second time with a higher score
C30_SecondDetectionScoresHigher ==
    /\ NoFaceFailure
    /\ \E usn \in Usns : \E p, q \in DetectionsOf(usn) :
           /\ p # q
           /\ FaceAt(p).similarity[usn] < FaceAt(q).similarity[usn]
           /\ emotion_priority(DetectedEmotion(q)) < emotion_priority(DetectedEmotion(p))

====
